---- MODULE Spec2Model ----
(***************************************************************************)
(* Model of the ax agent installer: the registry resolver                  *)
(* (src/src/core/registry.rs) and the installer adapters                   *)
(* (src/src/installers/{claude,cursor,codex}.rs).                          *)
(*                                                                         *)
(* Conventions of the model                                                *)
(*  - A name (agent, skill) is the sequence of its hyphen-separated words: *)
(*    "rust-architect" is <<"rust", "architect">>.  A tool name is the     *)
(*    sequence of its dot-separated words.  Words are atomic: no word of   *)
(*    the model is a prefix of another one and none holds '-' or '.'.      *)
(*  - Option<T> is [some |-> FALSE] or [some |-> TRUE, v |-> x].           *)
(*  - A text document is the sequence of its lines; a line is a record     *)
(*    with a kind k and the values formatted into it.                      *)
(***************************************************************************)
EXTENDS Integers, Sequences, FiniteSets, TLC

None == [some |-> FALSE]
Some(x) == [some |-> TRUE, v |-> x]

Range(s) == {s[i] : i \in 1..Len(s)}

(***************************************************************************)
(* Tokens of a markdown document with an optional frontmatter block.       *)
(* Dash3 is "---", Dash a further '-', Nl "\n", Cr "\r", Kv a YAML line    *)
(* "key: val", Junk a line that is not YAML, Text any other run of text.   *)
(***************************************************************************)
Dash3 == [t |-> "dash3"]
Dash == [t |-> "dash"]
Nl == [t |-> "nl"]
Cr == [t |-> "cr"]
Kv(key, val) == [t |-> "kv", key |-> key, val |-> val]
Junk == [t |-> "junk"]
Text(s) == [t |-> "text", s |-> s]

(***************************************************************************)
(* Agent model: src/src/core/agent.rs                                      *)
(***************************************************************************)
Identity(model, icon, prompt) ==
    [model |-> model, icon |-> icon, system_prompt |-> prompt]

\* Skill::default(): every string empty, every option None.
DefaultSkill ==
    [name |-> <<>>, description |-> None, content |-> <<>>,
     allowed_tools |-> None, license |-> None, compatibility |-> None,
     metadata |-> None, dependencies |-> None,
     source_dir |-> None, remote_base_url |-> None]

McpTool(name, command, args, env) ==
    [name |-> name, command |-> command, args |-> args, env |-> env,
     setup_url |-> None]

AgentConfig(name, version, description, author, identity, skills, mcp) ==
    [name |-> name, version |-> version, description |-> description,
     author |-> author, identity |-> identity, skills |-> skills, mcp |-> mcp]

AgentInfo(name, version, description, author) ==
    [name |-> name, version |-> version, description |-> description,
     author |-> author]

(***************************************************************************)
(* Built-in agents: src/src/core/registry.rs                               *)
(***************************************************************************)
SonnetLatest == <<"claude", "3", "5", "sonnet", "latest">>

context7 ==
    [McpTool(<<"context7">>, "npx", <<"-y", "@upstash/context7-mcp">>,
             [k \in {"CONTEXT7_API_KEY"} |-> "${CONTEXT7_API_KEY}"])
        EXCEPT !.setup_url = Some("https://context7.com/dashboard")]

rust_architect_agent ==
    AgentConfig(<<"rust", "architect">>, "1.0.0",
        <<"Senior Rust Systems Engineer">>, "ahmed6ww",
        Identity(Some(SonnetLatest), Some("crab"), <<"rust prompt">>),
        << [DefaultSkill EXCEPT !.name = <<"tokio", "patterns">>,
                                !.description = Some(<<"tokio best practices">>),
                                !.content = <<Text("# Tokio Best Practices")>>],
           [DefaultSkill EXCEPT !.name = <<"error", "handling">>,
                                !.description = Some(<<"rust error handling">>),
                                !.content = <<Text("# Rust Error Handling Patterns")>>] >>,
        << context7 >>)

fullstack_next_agent ==
    AgentConfig(<<"fullstack", "next">>, "1.0.0",
        <<"Next.js 15 + FastAPI + ShadcnUI full-stack expert">>, "ahmed6ww",
        Identity(Some(SonnetLatest), Some("zap"), <<"fullstack prompt">>),
        << [DefaultSkill EXCEPT !.name = <<"nextjs", "patterns">>,
                                !.description = Some(<<"nextjs patterns">>),
                                !.content = <<Text("# Next.js 15 Patterns")>>] >>,
        << context7 >>)

qa_testing_squad_agent ==
    AgentConfig(<<"qa", "testing", "squad">>, "1.0.0",
        <<"Playwright + Jest testing configuration specialist">>, "ahmed6ww",
        Identity(Some(SonnetLatest), Some("test-tube"), <<"qa prompt">>),
        << [DefaultSkill EXCEPT !.name = <<"playwright", "setup">>,
                                !.description = Some(<<"playwright configuration">>),
                                !.content = <<Text("# Playwright Setup")>>] >>,
        << context7 >>)

get_builtin_agents ==
    << AgentInfo(<<"rust", "architect">>, "1.0.0",
                 <<"Senior Rust Systems Engineer">>, "ahmed6ww"),
       AgentInfo(<<"fullstack", "next">>, "1.0.0",
                 <<"Next.js 15 + FastAPI + ShadcnUI full-stack expert">>, "ahmed6ww"),
       AgentInfo(<<"qa", "testing", "squad">>, "1.0.0",
                 <<"Playwright + Jest testing configuration specialist">>, "ahmed6ww") >>

BuiltinNames == {<<"rust", "architect">>, <<"fullstack", "next">>,
                 <<"qa", "testing", "squad">>}

get_builtin_agent(name) ==
    CASE name = <<"rust", "architect">> -> Some(rust_architect_agent)
      [] name = <<"fullstack", "next">> -> Some(fullstack_next_agent)
      [] name = <<"qa", "testing", "squad">> -> Some(qa_testing_squad_agent)
      [] OTHER -> None

(***************************************************************************)
(* Registry::parse_skill_md: src/src/core/registry.rs                      *)
(***************************************************************************)
IsSpace(tok) == tok.t \in {"nl", "cr"}

\* TrimStart that removes one line break at most.
TrimStartOnce(s) ==
    IF s # <<>> /\ IsSpace(Head(s)) THEN Tail(s) ELSE s

RECURSIVE TrimStart(_)
TrimStart(s) ==
    IF s # <<>> /\ IsSpace(Head(s)) THEN TrimStart(Tail(s)) ELSE s

RECURSIVE TrimEnd(_)
TrimEnd(s) ==
    IF s # <<>> /\ IsSpace(s[Len(s)]) THEN TrimEnd(SubSeq(s, 1, Len(s) - 1)) ELSE s

\* str::trim
Trim(s) == TrimEnd(TrimStart(s))

\* rest.find("\n---"): index of the first Nl directly followed by Dash3, 0 if none.
\* (The or_else alternative "\r\n---" holds "\n---", so it never finds more.)
FindClosing(rest) ==
    LET hits == {i \in 1..(Len(rest) - 1) : rest[i] = Nl /\ rest[i + 1] = Dash3}
    IN  IF hits = {} THEN 0 ELSE CHOOSE i \in hits : \A j \in hits : i <= j

\* The keys serde reads into a Skill (source_dir is #[serde(skip)]).
SkillKeys == {"name", "description", "content", "allowed-tools", "license",
              "compatibility", "metadata", "dependencies"}

\* The YAML lines of a frontmatter block: the tokens between line breaks.
YamlLines(fm) == SelectSeq(fm, LAMBDA tok : ~IsSpace(tok))

KvValue(lines, key) ==
    LET hits == {i \in 1..Len(lines) : lines[i].key = key}
    IN  IF hits = {} THEN None ELSE Some(lines[CHOOSE i \in hits : TRUE].val)

\* serde_yaml::from_str::<Skill>: None when the block is empty, holds a line
\* that is not "key: value", two lines without a line break between them,
\* repeats a key, or lacks the required name.
ParseSkillYaml(fm) ==
    LET lines == YamlLines(fm)
        wellFormed ==
            /\ lines # <<>>
            /\ \A i \in 1..(Len(fm) - 1) : IsSpace(fm[i]) \/ IsSpace(fm[i + 1])
            /\ \A i \in 1..Len(lines) : lines[i].t = "kv"
            /\ \A i, j \in 1..Len(lines) : lines[i].key = lines[j].key => i = j
            /\ \E i \in 1..Len(lines) : lines[i].key = "name"
        opt(key) == KvValue(lines, key)
    IN  IF ~wellFormed THEN None
        ELSE Some([DefaultSkill EXCEPT
                !.name = opt("name").v,
                !.description = opt("description"),
                !.content = IF opt("content").some THEN opt("content").v ELSE <<>>,
                !.allowed_tools = opt("allowed-tools"),
                !.license = opt("license"),
                !.compatibility = opt("compatibility"),
                !.metadata = opt("metadata"),
                !.dependencies = opt("dependencies")])

\* parse_skill_md that trims a document without frontmatter.
parse_skill_md_trimmed(name, content) ==
    IF content = <<>> \/ Head(content) # Dash3
    THEN [DefaultSkill EXCEPT !.name = name, !.content = Trim(content)]
    ELSE
      LET rest == Tail(content)
          idx == FindClosing(rest)
      IN  IF idx = 0
          THEN [DefaultSkill EXCEPT !.name = name, !.content = content]
          ELSE
            LET fm == Trim(SubSeq(rest, 1, idx - 1))
                body == TrimStart(SubSeq(rest, idx + 2, Len(rest)))
                parsed_fm == ParseSkillYaml(fm)
                skill == IF parsed_fm.some THEN parsed_fm.v
                         ELSE [DefaultSkill EXCEPT !.name = name]
            IN  [skill EXCEPT !.content = body,
                              !.name = IF skill.name = <<>> THEN name ELSE skill.name]

parse_skill_md(name, content) ==
    IF content = <<>> \/ Head(content) # Dash3
    THEN [DefaultSkill EXCEPT !.name = name, !.content = content]
    ELSE
      LET rest == Tail(content)
          idx == FindClosing(rest)
      IN  IF idx = 0
          THEN [DefaultSkill EXCEPT !.name = name, !.content = content]
          ELSE
            LET fm == Trim(SubSeq(rest, 1, idx - 1))
                body == TrimStart(SubSeq(rest, idx + 2, Len(rest)))
                from_str == ParseSkillYaml(fm)
                skill == IF from_str.some THEN from_str.v
                         ELSE [DefaultSkill EXCEPT !.name = name]
            IN  [skill EXCEPT !.content = body,
                              !.name = IF skill.name = <<>> THEN name ELSE skill.name]

(***************************************************************************)
(* Registry transport.  A response to one GET: the connection may fail     *)
(* (send() is Err), the status may be non-2xx, the body may fail to be     *)
(* read, and a body that was read is `body`.                               *)
(***************************************************************************)
NoBody == <<>>
ConnFail == [conn |-> FALSE, success |-> FALSE, readable |-> FALSE, body |-> NoBody]
Non2xx == [conn |-> TRUE, success |-> FALSE, readable |-> FALSE, body |-> NoBody]
ReadFail == [conn |-> TRUE, success |-> TRUE, readable |-> FALSE, body |-> NoBody]
Body(b) == [conn |-> TRUE, success |-> TRUE, readable |-> TRUE, body |-> b]

Ok(x) == [ok |-> TRUE, v |-> x]
Err(kind, name) == [ok |-> FALSE, err |-> [kind |-> kind, name |-> name]]

\* anyhow::bail!("Agent or skill '{}' not found in registry", name)
NotFound(name) == Err("not found in registry", name)

Step(tier, resp) == [tier |-> tier, resp |-> resp]
NoResponse == [conn |-> FALSE, success |-> FALSE, readable |-> FALSE, body |-> NoBody]

BaseUrl == "{base}"

\* fetch_skill_as_agent that records no remote_base_url on the skill.
fetch_skill_as_agent_without_url(name, resp) ==
    IF ~resp.conn THEN Err("Failed to connect to registry", <<>>)
    ELSE IF ~resp.success THEN Err("Skill not found", name)
    ELSE IF ~resp.readable THEN Err("Failed to read skill file", <<>>)
    ELSE
      LET skill == parse_skill_md(name, resp.body)
      IN  Ok(AgentConfig(name, "1.0.0",
                IF skill.description.some THEN skill.description.v
                ELSE <<"Skill: ">> \o name,
                "community",
                Identity(None, Some("books"),
                         <<"You have the ">> \o name \o <<" skill installed.">>),
                << skill >>, << >>))

\* Registry::fetch_skill_as_agent.  The body of the skill response is a
\* markdown document.
fetch_skill_as_agent(name, resp) ==
    IF ~resp.conn THEN Err("Failed to connect to registry", <<>>)
    ELSE IF ~resp.success THEN Err("Skill not found", name)
    ELSE IF ~resp.readable THEN Err("Failed to read skill file", <<>>)
    ELSE
      LET skill_md == parse_skill_md(name, resp.body)
          skill == [skill_md EXCEPT
                      !.remote_base_url = Some([base |-> BaseUrl, name |-> name])]
      IN  Ok(AgentConfig(name, "1.0.0",
                IF skill.description.some THEN skill.description.v
                ELSE <<"Skill: ">> \o name,
                "community",
                Identity(None, Some("books"),
                         <<"You have the ">> \o name \o <<" skill installed.">>),
                << skill >>, << >>))

\* A YAML document: a mapping from keys to values, or text that is no mapping.
YamlMap(m) == [kind |-> "mapping", m |-> m]
YamlJunk == [kind |-> "junk", m |-> <<>>]

RequiredAgentKeys == {"name", "version", "description", "author", "identity"}

\* A YAML mapping is a function from its keys to their values; Field reads
\* an optional key.
Field(m, key) == IF key \in DOMAIN m THEN Some(m[key]) ELSE None

FieldOr(m, key, default) == IF key \in DOMAIN m THEN m[key] ELSE default

\* Deserialize for Identity, Skill and McpTool; valid when the keys without
\* #[serde(default)] are there.
IdentityValid(m) == "system_prompt" \in DOMAIN m

IdentityFromMap(m) ==
    Identity(Field(m, "model"), Field(m, "icon"), m["system_prompt"])

SkillValid(m) == "name" \in DOMAIN m

SkillFromMap(m) ==
    [DefaultSkill EXCEPT
        !.name = m["name"],
        !.description = Field(m, "description"),
        !.content = FieldOr(m, "content", << >>),
        !.allowed_tools = Field(m, "allowed-tools"),
        !.license = Field(m, "license"),
        !.compatibility = Field(m, "compatibility"),
        !.metadata = Field(m, "metadata"),
        !.dependencies = Field(m, "dependencies")]

ToolValid(m) == {"name", "command"} \subseteq DOMAIN m

ToolFromMap(m) ==
    [name |-> m["name"], command |-> m["command"],
     args |-> FieldOr(m, "args", << >>),
     env |-> FieldOr(m, "env", [k \in {} |-> k]),
     setup_url |-> Field(m, "setup_url")]

\* ParseAgentYaml that reads no tools.
ParseAgentYamlWithoutTools(body) ==
    LET skills == FieldOr(body.m, "skills", << >>)
    IN  IF \/ body.kind # "mapping"
           \/ ~(RequiredAgentKeys \subseteq DOMAIN body.m)
           \/ ~IdentityValid(body.m["identity"])
           \/ \E i \in 1..Len(skills) : ~SkillValid(skills[i])
        THEN None
        ELSE Some(AgentConfig(body.m["name"], body.m["version"],
                    body.m["description"], body.m["author"],
                    IdentityFromMap(body.m["identity"]),
                    [i \in 1..Len(skills) |-> SkillFromMap(skills[i])],
                    << >>))

\* serde_yaml::from_str::<AgentConfig>: Err (None) unless the document is a
\* mapping with every required key and valid entries; skills and mcp are
\* #[serde(default)].
ParseAgentYaml(body) ==
    LET skills == FieldOr(body.m, "skills", << >>)
        mcp == FieldOr(body.m, "mcp", << >>)
    IN  IF \/ body.kind # "mapping"
           \/ ~(RequiredAgentKeys \subseteq DOMAIN body.m)
           \/ ~IdentityValid(body.m["identity"])
           \/ \E i \in 1..Len(skills) : ~SkillValid(skills[i])
           \/ \E i \in 1..Len(mcp) : ~ToolValid(mcp[i])
        THEN None
        ELSE Some(AgentConfig(body.m["name"], body.m["version"],
                    body.m["description"], body.m["author"],
                    IdentityFromMap(body.m["identity"]),
                    [i \in 1..Len(skills) |-> SkillFromMap(skills[i])],
                    [i \in 1..Len(mcp) |-> ToolFromMap(mcp[i])]))

\* fetch_agent with the built-in table consulted before the skill tier.
fetch_agent_builtin_before_skill(name, descResp, skillResp) ==
    LET d == Step("descriptor", descResp)
        k == Step("skill", skillResp)
        b == Step("builtin", NoResponse)
    IN
    IF ~descResp.conn
    THEN [result |-> Err("Failed to connect to registry", <<>>), steps |-> <<d>>]
    ELSE IF descResp.success
    THEN IF ~descResp.readable
         THEN [result |-> Err("Failed to read agent configuration", <<>>),
               steps |-> <<d>>]
         ELSE IF ~ParseAgentYaml(descResp.body).some
         THEN [result |-> Err("Failed to parse agent configuration", <<>>),
               steps |-> <<d>>]
         ELSE [result |-> Ok(ParseAgentYaml(descResp.body).v), steps |-> <<d>>]
    ELSE IF get_builtin_agent(name).some
    THEN [result |-> Ok(get_builtin_agent(name).v), steps |-> <<d, b>>]
    ELSE IF fetch_skill_as_agent(name, skillResp).ok
    THEN [result |-> fetch_skill_as_agent(name, skillResp), steps |-> <<d, b, k>>]
    ELSE [result |-> NotFound(name), steps |-> <<d, b, k>>]

\* Registry::fetch_agent(name) under the responses descResp (descriptor
\* request) and skillResp (skill request, used only when it is sent).
\* steps is the ordered list of the tiers the call went to.
fetch_agent(name, descResp, skillResp) ==
    LET d == Step("descriptor", descResp)
        k == Step("skill", skillResp)
        b == Step("builtin", NoResponse)
    IN
    IF ~descResp.conn
    THEN [result |-> Err("Failed to connect to registry", <<>>), steps |-> <<d>>]
    ELSE IF descResp.success
    THEN IF ~descResp.readable
         THEN [result |-> Err("Failed to read agent configuration", <<>>),
               steps |-> <<d>>]
         ELSE IF ~ParseAgentYaml(descResp.body).some
         THEN [result |-> Err("Failed to parse agent configuration", <<>>),
               steps |-> <<d>>]
         ELSE [result |-> Ok(ParseAgentYaml(descResp.body).v), steps |-> <<d>>]
    ELSE IF fetch_skill_as_agent(name, skillResp).ok
    THEN [result |-> fetch_skill_as_agent(name, skillResp), steps |-> <<d, k>>]
    ELSE IF get_builtin_agent(name).some
    THEN [result |-> Ok(get_builtin_agent(name).v), steps |-> <<d, k, b>>]
    ELSE [result |-> NotFound(name), steps |-> <<d, k, b>>]

\* Registry::fetch_agents under the response to the manifest request; the
\* body is Some(list of AgentInfo) or None when it is not such a list.
fetch_agents(resp) ==
    IF ~resp.conn THEN Err("Failed to connect to registry", <<>>)
    ELSE IF ~resp.success THEN Ok(get_builtin_agents)
    ELSE IF ~resp.readable \/ ~resp.body.some
    THEN Err("Failed to parse registry response", <<>>)
    ELSE Ok(resp.body.v)

(***************************************************************************)
(* File system.  A path is the sequence of its components; a component is  *)
(* the sequence of the words of the file or directory name, so the file    *)
(* "rust-architect.md" is <<"rust", "architect", ".md">>.  fs.dirs is the  *)
(* set of existing directories, fs.files maps each existing file to its    *)
(* content.  An adapter operation is the list of the std::fs calls it      *)
(* makes, run in order up to the first one that fails.                     *)
(***************************************************************************)
C(word) == <<word>>

Prefixes(path) == {SubSeq(path, 1, i) : i \in 1..Len(path)}
Parent(path) == SubSeq(path, 1, Len(path) - 1)
IsUnder(path, dir) ==
    Len(path) >= Len(dir) /\ SubSeq(path, 1, Len(dir)) = dir

IsFile(fs, path) == path \in DOMAIN fs.files
IsDir(fs, path) == path \in fs.dirs
\* Path::exists
Exists(fs, path) == IsFile(fs, path) \/ IsDir(fs, path)

CreateDirAll(path) == [op |-> "create_dir_all", path |-> path, content |-> <<>>]
Write(path, content) == [op |-> "write", path |-> path, content |-> content]
RemoveFile(path) == [op |-> "remove_file", path |-> path, content |-> <<>>]
RemoveDirAll(path) == [op |-> "remove_dir_all", path |-> path, content |-> <<>>]

\* Whether the call succeeds on fs.
CallOk(fs, call) ==
    CASE call.op = "create_dir_all" ->
            \A q \in Prefixes(call.path) : ~IsFile(fs, q)
      [] call.op = "write" ->
            IsDir(fs, Parent(call.path)) /\ ~IsDir(fs, call.path)
      [] call.op = "remove_file" -> IsFile(fs, call.path)
      [] call.op = "remove_dir_all" -> IsDir(fs, call.path)

\* The file system after the call succeeded.
CallEffect(fs, call) ==
    CASE call.op = "create_dir_all" ->
            [fs EXCEPT !.dirs = @ \cup Prefixes(call.path)]
      [] call.op = "write" ->
            [fs EXCEPT !.files =
                [q \in DOMAIN fs.files \cup {call.path} |->
                    IF q = call.path THEN call.content ELSE fs.files[q]]]
      [] call.op = "remove_file" ->
            [fs EXCEPT !.files =
                [q \in DOMAIN fs.files \ {call.path} |-> fs.files[q]]]
      [] call.op = "remove_dir_all" ->
            [dirs |-> {q \in fs.dirs : ~IsUnder(q, call.path)},
             files |-> [q \in {f \in DOMAIN fs.files : ~IsUnder(f, call.path)}
                            |-> fs.files[q]]]

\* Outcome of an adapter operation: res is "ok", "err" (an Err returned to
\* the caller) or "panic".
Outcome(fs, res) == [fs |-> fs, res |-> res]

\* Run that goes on with the calls after a failing one.
RECURSIVE RunPastErrors(_, _)
RunPastErrors(fs, calls) ==
    IF calls = <<>> THEN Outcome(fs, "ok")
    ELSE IF ~CallOk(fs, Head(calls))
    THEN Outcome(RunPastErrors(fs, Tail(calls)).fs, "err")
    ELSE RunPastErrors(CallEffect(fs, Head(calls)), Tail(calls))

\* Run the calls in order; the first failing call ends the operation with
\* its error (the ? operator), the calls before it stay applied.
RECURSIVE Run(_, _)
Run(fs, calls) ==
    IF calls = <<>> THEN Outcome(fs, "ok")
    ELSE IF ~CallOk(fs, Head(calls)) THEN Outcome(fs, "err")
    ELSE Run(CallEffect(fs, Head(calls)), Tail(calls))

\* The calls of one loop, concatenated in iteration order.
RECURSIVE Flatten(_)
Flatten(lists) ==
    IF lists = <<>> THEN <<>> ELSE Head(lists) \o Flatten(Tail(lists))

(***************************************************************************)
(* Platform directories: src/src/utils/paths.rs and the dirs crate.        *)
(* env.os is the build target, env.home and env.config tell whether        *)
(* dirs::home_dir() and dirs::config_dir() resolve.                        *)
(***************************************************************************)
HomeDir == << C("~") >>

home_dir(env) == IF env.home THEN Some(HomeDir) ELSE None

config_dir(env) ==
    IF ~env.config THEN None
    ELSE IF env.os = "macos"
         THEN Some(HomeDir \o << C("Library"), C("Application Support") >>)
         ELSE Some(HomeDir \o << C(".config") >>)

\* Option::map(|d| d.join(name))
Join(opt, name) == IF opt.some THEN Some(opt.v \o << name >>) ELSE None

claude_config_dir(env, fs) ==
    IF env.os = "macos"
    THEN Join(Join(Join(home_dir(env), C("Library")), C("Application Support")),
              C("Claude"))
    ELSE IF config_dir(env).some /\ Exists(fs, config_dir(env).v \o << C("claude") >>)
         THEN Join(config_dir(env), C("claude"))
         ELSE Join(home_dir(env), C(".claude"))

cursor_config_dir(env) ==
    IF env.os = "macos"
    THEN Join(Join(Join(home_dir(env), C("Library")), C("Application Support")),
              C("Cursor"))
    ELSE Join(config_dir(env), C("Cursor"))

codex_config_dir(env) == Join(home_dir(env), C(".codex"))

(***************************************************************************)
(* JSON documents (serde_json::Value).  A file holding a tool-config       *)
(* document is JsonFile(fmt, value) when its text parses as JSON (fmt is   *)
(* "pretty" for the text to_string_pretty produces, "user" for any other   *)
(* layout of the same value) and GarbageFile when it does not parse.       *)
(***************************************************************************)
JNull == [t |-> "null", m |-> <<>>]
JString(str) == [t |-> "string", m |-> <<str>>]
JArray == [t |-> "array", m |-> <<>>]
JObject(m) == [t |-> "object", m |-> m]
JPanic == [t |-> "panic", m |-> <<>>]
EmptyMap == [x \in {} |-> x]

JsonFile(fmt, value) == [kind |-> "json", fmt |-> fmt, val |-> value]
GarbageFile == [kind |-> "garbage", fmt |-> "user", val |-> JNull]

\* serde_json::from_str(&content).unwrap_or_else(|_| fallback)
FromStrOr(content, fallback) ==
    IF content.kind = "json" THEN content.val ELSE fallback

\* serde_json::to_string_pretty
ToStringPretty(value) == JsonFile("pretty", value)

\* Value::get(key)
JsonGet(value, key) ==
    IF value.t = "object" /\ key \in DOMAIN value.m
    THEN Some(value.m[key]) ELSE None

MapSet(m, key, x) == [q \in DOMAIN m \cup {key} |-> IF q = key THEN x ELSE m[q]]

\* value[key] = x (IndexMut<&str>): Null becomes an object, an object takes
\* the key, anything else panics.
JsonSet(value, key, x) ==
    CASE value.t = "null" -> JObject(MapSet(EmptyMap, key, x))
      [] value.t = "object" -> JObject(MapSet(value.m, key, x))
      [] OTHER -> JPanic

\* value[key1][key2] = x
JsonSet2(value, key1, key2, x) ==
    IF value.t \notin {"null", "object"} THEN JPanic
    ELSE LET inner == IF JsonGet(value, key1).some
                      THEN JsonGet(value, key1).v ELSE JNull
         IN  IF JsonSet(inner, key2, x).t = "panic" THEN JPanic
             ELSE JsonSet(value, key1, JsonSet(inner, key2, x))

\* EnsureServers without the is_none test: the server mapping always starts empty.
EnsureServersReset(config) == JsonSet(config, "mcpServers", JObject(EmptyMap))

\* if config.get("mcpServers").is_none() { config["mcpServers"] = json!({}) }
EnsureServers(config) ==
    IF JsonGet(config, "mcpServers").some THEN config
    ELSE JsonSet(config, "mcpServers", JObject(EmptyMap))

\* AddTools that keeps the entry a name already has.
RECURSIVE AddToolsKeepFirst(_, _)
AddToolsKeepFirst(config, entries) ==
    IF entries = <<>> \/ config.t = "panic" THEN config
    ELSE IF /\ JsonGet(config, "mcpServers").some
            /\ JsonGet(JsonGet(config, "mcpServers").v, Head(entries).name).some
    THEN AddToolsKeepFirst(config, Tail(entries))
    ELSE AddToolsKeepFirst(JsonSet2(config, "mcpServers", Head(entries).name,
                                    Head(entries).config),
                           Tail(entries))

\* for tool in &agent.mcp { config["mcpServers"][&tool.name] = tool_config }
\* over the list of the (name, tool_config) pairs in the order of agent.mcp.
RECURSIVE AddTools(_, _)
AddTools(config, entries) ==
    IF entries = <<>> \/ config.t = "panic" THEN config
    ELSE AddTools(JsonSet2(config, "mcpServers", Head(entries).name,
                           Head(entries).config),
                  Tail(entries))

(***************************************************************************)
(* ClaudeInstaller: src/src/installers/claude.rs                           *)
(***************************************************************************)
Line(k, v) == [k |-> k, v |-> v]

ClaudeGetBaseDir(env, fs) == claude_config_dir(env, fs)

ClaudeGetAgentsDir(env, fs) == Join(ClaudeGetBaseDir(env, fs), C("agents"))

ClaudeGetMcpConfigPath(env) ==
    IF env.os = "macos"
    THEN Join(Join(Join(Join(home_dir(env), C("Library")),
                   C("Application Support")), C("Claude")), C("config.json"))
    ELSE Join(Join(config_dir(env), C("claude")), C("config.json"))

\* ModelShort that tests for opus before sonnet.
ModelShortOpusFirst(identity) ==
    LET model == IF identity.model.some THEN identity.model.v ELSE <<"sonnet">>
        contains(word) == word \in Range(model)
    IN  IF contains("opus") THEN <<"opus">>
        ELSE IF contains("sonnet") THEN <<"sonnet">>
        ELSE IF contains("haiku") THEN <<"haiku">>
        ELSE model

\* The label written for the model hint.
ModelShort(identity) ==
    LET model == IF identity.model.some THEN identity.model.v ELSE <<"sonnet">>
        contains(word) == word \in Range(model)
    IN  IF contains("sonnet") THEN <<"sonnet">>
        ELSE IF contains("opus") THEN <<"opus">>
        ELSE IF contains("haiku") THEN <<"haiku">>
        ELSE model

SkillNames(agent) == [i \in 1..Len(agent.skills) |-> agent.skills[i].name]

ClaudeGenerateAgentMarkdown(agent) ==
    << Line("---", <<>>),
       Line("name", agent.name),
       Line("description", agent.description),
       Line("model", ModelShort(agent.identity)),
       Line("icon", IF agent.identity.icon.some
                    THEN agent.identity.icon.v ELSE "robot") >>
    \o (IF agent.skills # <<>>
        THEN << Line("skills", SkillNames(agent)) >> ELSE << >>)
    \o << Line("---", <<>>), Line("", <<>>),
          Line("body", agent.identity.system_prompt) >>

\* The optional frontmatter lines shared by both generate_skill_md.
OptLine(k, opt) == IF opt.some THEN << Line(k, opt.v) >> ELSE << >>

\* keyOrder is the order in which the HashMap iteration yields the keys.
MetadataLines(skill, keyOrder) ==
    IF ~skill.metadata.some THEN << >>
    ELSE << Line("metadata", <<>>) >>
         \o [i \in 1..Len(keyOrder) |->
                Line("  " \o keyOrder[i], skill.metadata.v[keyOrder[i]])]

ClaudeGenerateSkillMd(skill, keyOrder) ==
    << Line("---", <<>>), Line("name", skill.name) >>
    \o OptLine("description", skill.description)
    \o OptLine("license", skill.license)
    \o OptLine("compatibility", skill.compatibility)
    \o OptLine("allowed-tools", skill.allowed_tools)
    \o OptLine("dependencies", skill.dependencies)
    \o MetadataLines(skill, keyOrder)
    \o << Line("---", <<>>), Line("", <<>>) >>
    \o skill.content

\* The orders a HashMap with key set keys can be iterated in.
Perms(keys) ==
    {q \in [1..Cardinality(keys) -> keys] :
        \A i, j \in 1..Cardinality(keys) : q[i] = q[j] => i = j}

MetadataKeys(skill) ==
    IF skill.metadata.some THEN DOMAIN skill.metadata.v ELSE {}

\* One iteration order per skill of the list.
SkillOrders(skills) ==
    {q \in [1..Len(skills) -> UNION {Perms(MetadataKeys(skills[i])) : i \in 1..Len(skills)}] :
        \A i \in 1..Len(skills) : q[i] \in Perms(MetadataKeys(skills[i]))}

RECURSIVE SetToSeq(_)
SetToSeq(set) ==
    IF set = {} THEN << >>
    ELSE LET x == CHOOSE y \in set : TRUE IN << x >> \o SetToSeq(set \ {x})

SkillSubdirs == << C("scripts"), C("references"), C("assets") >>

\* copy_dir_recursive(source, dest): every directory and file under source
\* is created under dest.
CopyDirRecursive(fs, source, dest) ==
    LET rel(path) == SubSeq(path, Len(source) + 1, Len(path))
        subdirs == {q \in fs.dirs : IsUnder(q, source)}
        files == {q \in DOMAIN fs.files : IsUnder(q, source)}
    IN  [i \in 1..Cardinality(subdirs) |->
            CreateDirAll(dest \o rel(SetToSeq(subdirs)[i]))]
        \o [i \in 1..Cardinality(files) |->
            Write(dest \o rel(SetToSeq(files)[i]), fs.files[SetToSeq(files)[i]])]

CopySkillSubdirectories(fs, source_dir, dest_dir) ==
    Flatten([i \in 1..Len(SkillSubdirs) |->
        IF IsDir(fs, source_dir \o << SkillSubdirs[i] >>)
        THEN CopyDirRecursive(fs, source_dir \o << SkillSubdirs[i] >>,
                              dest_dir \o << SkillSubdirs[i] >>)
        ELSE << >>])

\* ClaudeInstallIdentity that opens the agent file for appending.
ClaudeInstallIdentityAppend(env, fs, agent) ==
    LET agents_dir == ClaudeGetAgentsDir(env, fs)
        agent_file == agents_dir.v \o << agent.name \o <<".md">> >>
    IN  IF ~agents_dir.some THEN Outcome(fs, "err")
        ELSE Run(fs, << CreateDirAll(agents_dir.v),
                        Write(agent_file,
                              (IF IsFile(fs, agent_file)
                               THEN fs.files[agent_file] ELSE << >>)
                              \o ClaudeGenerateAgentMarkdown(agent)) >>)

ClaudeInstallIdentity(env, fs, agent) ==
    LET agents_dir == ClaudeGetAgentsDir(env, fs)
    IN  IF ~agents_dir.some THEN Outcome(fs, "err")
        ELSE Run(fs, << CreateDirAll(agents_dir.v),
                        Write(agents_dir.v \o << agent.name \o <<".md">> >>,
                              ClaudeGenerateAgentMarkdown(agent)) >>)

\* ClaudeInstallSkills that writes every skill into the folder of the agent.
ClaudeInstallSkillsOneFolder(env, fs, agent, orders) ==
    LET base_dir == ClaudeGetBaseDir(env, fs)
        skills_dir == base_dir.v \o << C("skills") >>
        one(i) ==
            << CreateDirAll(skills_dir \o << agent.name >>),
               Write(skills_dir \o << agent.name, C("SKILL.md") >>,
                     ClaudeGenerateSkillMd(agent.skills[i], orders[i])) >>
    IN  IF agent.skills = << >> THEN Outcome(fs, "ok")
        ELSE IF ~base_dir.some THEN Outcome(fs, "err")
        ELSE Run(fs, << CreateDirAll(skills_dir) >>
                     \o Flatten([i \in 1..Len(agent.skills) |-> one(i)]))

ClaudeInstallSkills(env, fs, agent, orders) ==
    LET base_dir == ClaudeGetBaseDir(env, fs)
        skills_dir == base_dir.v \o << C("skills") >>
        one(i) ==
            LET skill == agent.skills[i]
                skill_folder == skills_dir \o << skill.name >>
            IN  << CreateDirAll(skill_folder),
                   Write(skill_folder \o << C("SKILL.md") >>,
                         ClaudeGenerateSkillMd(skill, orders[i])) >>
                \o (IF skill.source_dir.some
                    THEN CopySkillSubdirectories(fs, skill.source_dir.v, skill_folder)
                    ELSE << >>)
    IN  IF agent.skills = << >> THEN Outcome(fs, "ok")
        ELSE IF ~base_dir.some THEN Outcome(fs, "err")
        ELSE Run(fs, << CreateDirAll(skills_dir) >>
                     \o Flatten([i \in 1..Len(agent.skills) |-> one(i)]))

ClaudeToolConfig(tool) ==
    [name |-> tool.name,
     config |-> JObject([type |-> JString("stdio"),
                         command |-> JString(tool.command),
                         args |-> [t |-> "array", m |-> tool.args],
                         env |-> JObject(tool.env)])]

ClaudeInstallTools(env, fs, agent) ==
    LET config_path == ClaudeGetMcpConfigPath(env)
        loaded == IF Exists(fs, config_path.v)
                  THEN FromStrOr(fs.files[config_path.v], JObject(EmptyMap))
                  ELSE JObject(EmptyMap)
        config == AddTools(EnsureServers(loaded),
                           [i \in 1..Len(agent.mcp) |-> ClaudeToolConfig(agent.mcp[i])])
    IN  IF agent.mcp = << >> THEN Outcome(fs, "ok")
        ELSE IF ~config_path.some THEN Outcome(fs, "err")
        ELSE IF Exists(fs, config_path.v) /\ ~IsFile(fs, config_path.v)
        THEN Outcome(fs, "err")
        ELSE IF config.t = "panic" THEN Outcome(fs, "panic")
        ELSE Run(fs, << CreateDirAll(Parent(config_path.v)),
                        Write(config_path.v, ToStringPretty(config)) >>)

\* ClaudeUninstall that also removes the tool-config document.
ClaudeUninstallWithTools(env, fs, agent_name) ==
    LET agents_dir == ClaudeGetAgentsDir(env, fs)
        agent_file == agents_dir.v \o << agent_name \o <<".md">> >>
        skills_dir == ClaudeGetBaseDir(env, fs).v \o << C("skills"), agent_name >>
        config_path == ClaudeGetMcpConfigPath(env)
    IN  IF ~agents_dir.some THEN Outcome(fs, "err")
        ELSE Run(fs, (IF Exists(fs, agent_file)
                      THEN << RemoveFile(agent_file) >> ELSE << >>)
                  \o (IF Exists(fs, skills_dir)
                      THEN << RemoveDirAll(skills_dir) >> ELSE << >>)
                  \o (IF config_path.some /\ IsFile(fs, config_path.v)
                      THEN << RemoveFile(config_path.v) >> ELSE << >>))

ClaudeUninstall(env, fs, agent_name) ==
    LET agents_dir == ClaudeGetAgentsDir(env, fs)
        agent_file == agents_dir.v \o << agent_name \o <<".md">> >>
        skills_dir == ClaudeGetBaseDir(env, fs).v \o << C("skills"), agent_name >>
    IN  IF ~agents_dir.some THEN Outcome(fs, "err")
        ELSE Run(fs, (IF Exists(fs, agent_file)
                      THEN << RemoveFile(agent_file) >> ELSE << >>)
                  \o (IF Exists(fs, skills_dir)
                      THEN << RemoveDirAll(skills_dir) >> ELSE << >>))

(***************************************************************************)
(* CursorInstaller: src/src/installers/cursor.rs                           *)
(***************************************************************************)
\* get_base_dir that falls back to the project directory.
CursorGetBaseDirOrProject(env) ==
    IF env.global /\ cursor_config_dir(env).some
    THEN cursor_config_dir(env) ELSE Some(<< C(".cursor") >>)

CursorGetBaseDir(env) ==
    IF env.global THEN cursor_config_dir(env) ELSE Some(<< C(".cursor") >>)

CursorGetRulesDir(env) == Join(CursorGetBaseDir(env), C("rules"))

CursorGetMcpConfigPath(env) == Join(CursorGetBaseDir(env), C("mcp.json"))

CursorGenerateMdcContent(name, description, content) ==
    << Line("---", <<>>),
       Line("description", description),
       Line("globs", <<>>),
       Line("alwaysApply", <<"true">>),
       Line("---", <<>>), Line("", <<>>),
       Line("#", name), Line("", <<>>) >>
    \o content \o << Line("", <<>>) >>

\* Extensions are the components of a file name that follow its last word.
Extensions == {".md", ".mdc"}

\* file_name.starts_with(&format!("{}-", agent_name)) && file_name.ends_with(".mdc")
MatchesAgentPrefix(file_name, agent_name) ==
    /\ Len(file_name) > Len(agent_name)
    /\ SubSeq(file_name, 1, Len(agent_name)) = agent_name
    /\ file_name[Len(agent_name) + 1] \notin Extensions
    /\ file_name[Len(file_name)] = ".mdc"

CursorInstallIdentity(env, fs, agent) ==
    LET rules_dir == CursorGetRulesDir(env)
        icon == IF agent.identity.icon.some THEN agent.identity.icon.v ELSE "robot"
    IN  IF ~rules_dir.some THEN Outcome(fs, "err")
        ELSE Run(fs, << CreateDirAll(rules_dir.v),
                        Write(rules_dir.v \o << agent.name \o <<"identity", ".mdc">> >>,
                              CursorGenerateMdcContent(
                                  <<icon>> \o agent.name \o <<"Agent">>,
                                  agent.description,
                                  << Line("body", agent.identity.system_prompt) >>)) >>)

CursorInstallSkills(env, fs, agent) ==
    LET rules_dir == CursorGetRulesDir(env)
        one(i) ==
            LET skill == agent.skills[i]
            IN  Write(rules_dir.v \o << agent.name \o skill.name \o <<".mdc">> >>,
                      CursorGenerateMdcContent(
                          agent.name \o <<" - ">> \o skill.name,
                          <<"Knowledge base for ">> \o agent.name \o <<" agent">>,
                          skill.content))
    IN  IF agent.skills = << >> THEN Outcome(fs, "ok")
        ELSE IF ~rules_dir.some THEN Outcome(fs, "err")
        ELSE Run(fs, << CreateDirAll(rules_dir.v) >>
                     \o [i \in 1..Len(agent.skills) |-> one(i)])

CursorToolConfig(tool) ==
    [name |-> tool.name,
     config |-> JObject([command |-> JString(tool.command),
                         args |-> [t |-> "array", m |-> tool.args],
                         env |-> JObject(tool.env)])]

EmptyServers == JObject([k \in {"mcpServers"} |-> JObject(EmptyMap)])

\* CursorInstallTools without the return for an empty tool list.
CursorInstallToolsAlways(env, fs, agent) ==
    LET config_path == CursorGetMcpConfigPath(env)
        loaded == IF Exists(fs, config_path.v)
                  THEN FromStrOr(fs.files[config_path.v], EmptyServers)
                  ELSE EmptyServers
        config == AddTools(EnsureServers(loaded),
                           [i \in 1..Len(agent.mcp) |-> CursorToolConfig(agent.mcp[i])])
    IN  IF ~config_path.some THEN Outcome(fs, "err")
        ELSE IF Exists(fs, config_path.v) /\ ~IsFile(fs, config_path.v)
        THEN Outcome(fs, "err")
        ELSE IF config.t = "panic" THEN Outcome(fs, "panic")
        ELSE Run(fs, << CreateDirAll(Parent(config_path.v)),
                        Write(config_path.v, ToStringPretty(config)) >>)

CursorInstallTools(env, fs, agent) ==
    LET config_path == CursorGetMcpConfigPath(env)
        loaded == IF Exists(fs, config_path.v)
                  THEN FromStrOr(fs.files[config_path.v], EmptyServers)
                  ELSE EmptyServers
        config == AddTools(EnsureServers(loaded),
                           [i \in 1..Len(agent.mcp) |-> CursorToolConfig(agent.mcp[i])])
    IN  IF agent.mcp = << >> THEN Outcome(fs, "ok")
        ELSE IF ~config_path.some THEN Outcome(fs, "err")
        ELSE IF Exists(fs, config_path.v) /\ ~IsFile(fs, config_path.v)
        THEN Outcome(fs, "err")
        ELSE IF config.t = "panic" THEN Outcome(fs, "panic")
        ELSE Run(fs, << CreateDirAll(Parent(config_path.v)),
                        Write(config_path.v, ToStringPretty(config)) >>)

\* The entries fs::read_dir(dir) yields.
ReadDir(fs, dir) ==
    {q \in fs.dirs \cup DOMAIN fs.files : Len(q) = Len(dir) + 1 /\ IsUnder(q, dir)}

CursorUninstall(env, fs, agent_name) ==
    LET rules_dir == CursorGetRulesDir(env)
        identity_file == rules_dir.v \o << agent_name \o <<"identity", ".mdc">> >>
        matching == {q \in ReadDir(fs, rules_dir.v) \ {identity_file} :
                        MatchesAgentPrefix(q[Len(q)], agent_name)}
    IN  IF ~rules_dir.some THEN Outcome(fs, "err")
        ELSE IF Exists(fs, rules_dir.v) /\ ~IsDir(fs, rules_dir.v)
        THEN Outcome(fs, "err")
        ELSE Run(fs, (IF Exists(fs, identity_file)
                      THEN << RemoveFile(identity_file) >> ELSE << >>)
                  \o [i \in 1..Cardinality(matching) |->
                        RemoveFile(SetToSeq(matching)[i])])

(***************************************************************************)
(* CodexInstaller: src/src/installers/codex.rs                             *)
(***************************************************************************)
CodexGetBaseDir(env) == codex_config_dir(env)

CodexGetSkillsDir(env) == Join(CodexGetBaseDir(env), C("skills"))

CodexGenerateSkillMd(skill, fallback_description, keyOrder) ==
    << Line("---", <<>>), Line("name", skill.name),
       Line("description", IF skill.description.some
                           THEN skill.description.v ELSE fallback_description) >>
    \o OptLine("license", skill.license)
    \o OptLine("compatibility", skill.compatibility)
    \o OptLine("allowed-tools", skill.allowed_tools)
    \o OptLine("dependencies", skill.dependencies)
    \o MetadataLines(skill, keyOrder)
    \o << Line("---", <<>>), Line("", <<>>) >>
    \o skill.content

\* The candidate files download_skill_subdirectories asks for, in order.
SubdirFiles ==
    << <<"scripts", "run_ruff.py">>, <<"scripts", "scaffold_test.py">>,
       <<"scripts", "main.py">>, <<"scripts", "setup.py">>,
       <<"references", "cleanup_rules.md">>, <<"references", "clean_rules.md">>,
       <<"references", "quad_strategy.md">>, <<"references", "repo_strategy.md">>,
       <<"references", "clean_arch.md">>, <<"references", "REFERENCE.md">>,
       <<"assets", "project_layout.txt">>, <<"assets", "template.json">> >>

RemoteBytes(url, file) == << Line("remote", << url.name, file >>) >>

\* download_remote_file for the candidates from the i-th on; served is the
\* set of candidates the registry answers with 2xx.  An Err of one download
\* is dropped by the caller (is_ok()), what it wrote before failing stays.
RECURSIVE DownloadFrom(_, _, _, _, _)
DownloadFrom(fs, remote_base_url, dest_dir, served, i) ==
    IF i > Len(SubdirFiles) THEN fs
    ELSE LET file == SubdirFiles[i]
             dest_file == dest_dir \o << C(file[1]), C(file[2]) >>
             got == IF file \in served
                    THEN Run(fs, << CreateDirAll(Parent(dest_file)),
                                    Write(dest_file, RemoteBytes(remote_base_url, file)) >>).fs
                    ELSE fs
         IN  DownloadFrom(got, remote_base_url, dest_dir, served, i + 1)

\* download_skill_subdirectories that returns the error of a failed download.
CodexDownloadSkillSubdirectoriesStrict(fs, remote_base_url, dest_dir, served) ==
    Outcome(DownloadFrom(fs, remote_base_url, dest_dir, served, 1),
            IF Range(SubdirFiles) \subseteq served THEN "ok" ELSE "err")

\* download_skill_subdirectories: the trailing create_dir_all runs only for
\* a subdirectory a download already created, so it changes nothing.
CodexDownloadSkillSubdirectories(fs, remote_base_url, dest_dir, served) ==
    Outcome(DownloadFrom(fs, remote_base_url, dest_dir, served, 1), "ok")

\* The body of the loop of install_skills for the skills from the i-th on.
RECURSIVE CodexInstallSkillsFrom(_, _, _, _, _, _)
CodexInstallSkillsFrom(fs, skills_dir, agent, orders, served, i) ==
    IF i > Len(agent.skills) THEN Outcome(fs, "ok")
    ELSE
      LET skill == agent.skills[i]
          skill_folder == skills_dir \o << skill.name >>
          written == Run(fs, << CreateDirAll(skill_folder),
                                Write(skill_folder \o << C("SKILL.md") >>,
                                      CodexGenerateSkillMd(skill, agent.description,
                                                           orders[i])) >>)
          copied ==
              IF skill.source_dir.some
              THEN Run(written.fs, CopySkillSubdirectories(written.fs,
                                       skill.source_dir.v, skill_folder))
              ELSE IF skill.remote_base_url.some
              THEN CodexDownloadSkillSubdirectories(written.fs,
                       skill.remote_base_url.v, skill_folder, served)
              ELSE written
      IN  IF written.res # "ok" THEN written
          ELSE IF copied.res # "ok" THEN copied
          ELSE CodexInstallSkillsFrom(copied.fs, skills_dir, agent, orders, served, i + 1)

CodexInstallIdentity(env, fs, agent) == Outcome(fs, "ok")

CodexInstallSkills(env, fs, agent, orders, served) ==
    LET skills_dir == CodexGetSkillsDir(env)
    IN  IF agent.skills = << >> THEN Outcome(fs, "ok")
        ELSE IF ~skills_dir.some THEN Outcome(fs, "err")
        ELSE CodexInstallSkillsFrom(fs, skills_dir.v, agent, orders, served, 1)

\* format!("[mcp_servers.{}]", name) as a line of the file; a comment line
\* "# [mcp_servers.<name>]" holds the same text.
Header(name) == Line("header", name)
CommentedHeader(name) == Line("# header", name)

\* ContainsHeader that never finds the header.
ContainsHeaderNever(content, name) == FALSE

\* existing_content.contains(&server_header)
ContainsHeader(content, name) ==
    \E i \in 1..Len(content) :
        content[i].k \in {"header", "# header"} /\ content[i].v = name

\* The section appended for a tool; envOrder is the iteration order of tool.env.
CodexSection(tool, envOrder) ==
    << Line("", <<>>), Header(tool.name), Line("command", <<tool.command>>) >>
    \o (IF tool.args # << >> THEN << Line("args", tool.args) >> ELSE << >>)
    \o (IF DOMAIN tool.env # {}
        THEN << Line("", <<>>), Header(tool.name \o <<"env">>) >>
             \o [i \in 1..Len(envOrder) |->
                    Line(envOrder[i], <<tool.env[envOrder[i]]>>)]
        ELSE << >>)

\* CodexAppendTools without the test for an existing header.
RECURSIVE CodexAppendToolsAlways(_, _, _, _)
CodexAppendToolsAlways(content, tools, envOrders, i) ==
    IF i > Len(tools) THEN content
    ELSE CodexAppendToolsAlways(content \o CodexSection(tools[i], envOrders[i]),
                               tools, envOrders, i + 1)

\* The loop of install_tools over the tools from the i-th on.
RECURSIVE CodexAppendTools(_, _, _, _)
CodexAppendTools(content, tools, envOrders, i) ==
    IF i > Len(tools) THEN content
    ELSE IF ContainsHeader(content, tools[i].name)
    THEN CodexAppendTools(content, tools, envOrders, i + 1)
    ELSE CodexAppendTools(content \o CodexSection(tools[i], envOrders[i]),
                          tools, envOrders, i + 1)

\* One iteration order of env per tool of the list.
EnvOrders(tools) ==
    {q \in [1..Len(tools) -> UNION {Perms(DOMAIN tools[i].env) : i \in 1..Len(tools)}] :
        \A i \in 1..Len(tools) : q[i] \in Perms(DOMAIN tools[i].env)}

CodexInstallTools(env, fs, agent, envOrders) ==
    LET base_dir == CodexGetBaseDir(env)
        config_path == base_dir.v \o << C("config.toml") >>
        made == Run(fs, << CreateDirAll(Parent(config_path)) >>)
        existing_content == IF Exists(made.fs, config_path)
                            THEN made.fs.files[config_path] ELSE << >>
    IN  IF agent.mcp = << >> THEN Outcome(fs, "ok")
        ELSE IF ~base_dir.some THEN Outcome(fs, "err")
        ELSE IF made.res # "ok" THEN made
        ELSE IF Exists(made.fs, config_path) /\ ~IsFile(made.fs, config_path)
        THEN Outcome(made.fs, "err")
        ELSE Run(made.fs, << Write(config_path,
                    CodexAppendTools(existing_content, agent.mcp, envOrders, 1)) >>)

CodexUninstall(env, fs, agent_name) ==
    LET skills_dir == CodexGetSkillsDir(env)
        skill_folder == skills_dir.v \o << agent_name >>
    IN  IF ~skills_dir.some THEN Outcome(fs, "err")
        ELSE Run(fs, IF Exists(fs, skill_folder)
                     THEN << RemoveDirAll(skill_folder) >> ELSE << >>)

(***************************************************************************)
(* Installer dispatch: src/src/installers/mod.rs (get_installer and the    *)
(* Installer trait).                                                       *)
(***************************************************************************)
Targets == {"claude", "cursor", "codex"}

\* The targets whose tool-config document is JSON.
JsonTargets == {"claude", "cursor"}

install_identity(target, env, fs, agent) ==
    CASE target = "claude" -> ClaudeInstallIdentity(env, fs, agent)
      [] target = "cursor" -> CursorInstallIdentity(env, fs, agent)
      [] target = "codex" -> CodexInstallIdentity(env, fs, agent)

install_skills(target, env, fs, agent, orders, served) ==
    CASE target = "claude" -> ClaudeInstallSkills(env, fs, agent, orders)
      [] target = "cursor" -> CursorInstallSkills(env, fs, agent)
      [] target = "codex" -> CodexInstallSkills(env, fs, agent, orders, served)

install_tools(target, env, fs, agent, envOrders) ==
    CASE target = "claude" -> ClaudeInstallTools(env, fs, agent)
      [] target = "cursor" -> CursorInstallTools(env, fs, agent)
      [] target = "codex" -> CodexInstallTools(env, fs, agent, envOrders)

uninstall(target, env, fs, agent_name) ==
    CASE target = "claude" -> ClaudeUninstall(env, fs, agent_name)
      [] target = "cursor" -> CursorUninstall(env, fs, agent_name)
      [] target = "codex" -> CodexUninstall(env, fs, agent_name)

\* The path of the target's shared tool-config document.
ToolConfigPath(target, env) ==
    CASE target = "claude" -> ClaudeGetMcpConfigPath(env)
      [] target = "cursor" -> CursorGetMcpConfigPath(env)
      [] target = "codex" -> Join(CodexGetBaseDir(env), C("config.toml"))

(***************************************************************************)
(* Inputs of the model.                                                    *)
(***************************************************************************)
\* Number of adapter operations in one behaviour.
MaxOps == 3

\* A standalone skill document and the agent the skill tier wraps it into.
TokioSkillDoc ==
    << Dash3, Nl, Kv("name", <<"tokio", "patterns">>), Nl,
       Kv("description", <<"tokio skill">>), Nl,
       Kv("metadata", [author |-> "ax", version |-> "1.2"]), Nl,
       Dash3, Nl, Nl, Text("BODY") >>

PlainSkillDoc == << Text("BODY"), Nl, Dash3, Nl >>

UnnamedSkillDoc ==
    << Dash3, Nl, Kv("description", <<"no name">>), Nl, Dash3, Nl, Text("BODY") >>

SkillDocs == {TokioSkillDoc, PlainSkillDoc, UnnamedSkillDoc}

tokio_skill_agent == fetch_skill_as_agent(<<"tokio", "patterns">>, Body(TokioSkillDoc)).v

\* An agent without skills whose name is the first word of rust-architect
\* and whose tools are context7 with another command and a second tool.
rust_agent ==
    AgentConfig(<<"rust">>, "0.1.0", <<"Rust helper">>, "someone",
        Identity(Some(<<"gpt", "4o">>), None, <<"rust helper prompt">>),
        << >>,
        << McpTool(<<"context7">>, "uvx", <<"context7">>, EmptyMap),
           McpTool(<<"files">>, "npx", << >>,
                   [k \in {"A_KEY", "B_KEY"} |-> "secret"]) >>)

InstallAgents == {rust_architect_agent, rust_agent, tokio_skill_agent}

UninstallNames == {a.name : a \in InstallAgents}

\* The sets of candidate files the registry serves for a remote skill.
ServedSets == { {}, {<<"scripts", "main.py">>, <<"assets", "template.json">>} }

\* Platforms a target is run on.
Env(os, home, config, global) ==
    [os |-> os, home |-> home, config |-> config, global |-> global]

Platforms(target) ==
    CASE target = "claude" -> {Env("linux", TRUE, TRUE, FALSE),
                               Env("macos", TRUE, TRUE, FALSE),
                               Env("linux", FALSE, FALSE, FALSE)}
      [] target = "cursor" -> {Env("linux", TRUE, TRUE, FALSE),
                               Env("linux", TRUE, TRUE, TRUE),
                               Env("linux", FALSE, FALSE, TRUE)}
      [] target = "codex" -> {Env("linux", TRUE, TRUE, FALSE),
                              Env("linux", FALSE, FALSE, FALSE)}

\* Tool-config documents a user may already have.
UserServer(command) ==
    JObject([command |-> JString(command), args |-> JArray, env |-> JObject(EmptyMap)])

UserServers ==
    JObject([k \in {<<"context7">>, <<"github">>} |->
                IF k = <<"context7">> THEN UserServer("docker") ELSE UserServer("gh")])

SeedJsonDocs ==
    { GarbageFile,
      JsonFile("user", JObject([k \in {"theme", "mcpServers"} |->
                    IF k = "theme" THEN JString("dark") ELSE UserServers])),
      JsonFile("user", JObject([k \in {"theme"} |-> JString("dark")])),
      JsonFile("user", JObject([k \in {"mcpServers"} |-> JNull])),
      JsonFile("user", JObject([k \in {"mcpServers"} |-> JString("none")])),
      JsonFile("user", JNull),
      JsonFile("user", JArray) }

SeedTomlDocs ==
    { << Line("other", <<"model = o3">>) >>,
      << Line("other", <<"model = o3">>), Header(<<"context7">>),
         Line("command", <<"docker">>) >>,
      << CommentedHeader(<<"files">>), Line("other", <<"model = o3">>) >> }

SeedDocs(target) == IF target = "codex" THEN SeedTomlDocs ELSE SeedJsonDocs

EmptyFs == [dirs |-> {}, files |-> EmptyMap]

\* The file systems an operation may find: no tool-config document, or one
\* of the seed documents at the target's tool-config path.
SeedFs(target, env) ==
    {EmptyFs} \cup
    (IF ~ToolConfigPath(target, env).some THEN {}
     ELSE {[dirs |-> Prefixes(Parent(ToolConfigPath(target, env).v)),
            files |-> [q \in {ToolConfigPath(target, env).v} |-> doc]]
            : doc \in SeedDocs(target)})

(***************************************************************************)
(* State.                                                                  *)
(*   target, env  the adapter the behaviour runs and its platform          *)
(*   fs           the file system                                          *)
(*   last         the adapter operation that ran last, its argument and    *)
(*                its outcome                                              *)
(*   hist         the adapter operations run so far, oldest first          *)
(*   resolved     the last call of Registry::fetch_agent: the name, the    *)
(*                responses of the registry and what the call returned     *)
(*   listed       the last call of Registry::fetch_agents                  *)
(*   parsed       the last call of Registry::parse_skill_md                *)
(*   pc, inv      the position of the running install command (execute)    *)
(*                and what it has done so far                              *)
(*   procs        the install_tools operations running side by side: the   *)
(*                statement each is at and its local variables             *)
(***************************************************************************)
VARIABLES target, env, fs, last, hist, resolved, listed, parsed, pc, inv, procs

vars == << target, env, fs, last, hist, resolved, listed, parsed, pc, inv, procs >>

NoOp == [op |-> "none", name |-> <<>>, res |-> "ok"]
NoCall == [called |-> FALSE]
\* No install_tools operations run side by side.
NoProcs == << >>
\* No install command is running.
Idle == [name |-> <<>>, start |-> EmptyFs, trace |-> <<>>, missing |-> {},
         error |-> ""]

Init ==
    /\ target \in Targets
    /\ env \in Platforms(target)
    /\ fs \in SeedFs(target, env)
    /\ last = NoOp
    /\ hist = << >>
    /\ resolved = NoCall
    /\ listed = NoCall
    /\ parsed = NoCall
    /\ pc = "idle"
    /\ inv = Idle
    /\ procs = NoProcs

Ran(op, agent, out) ==
    /\ fs' = out.fs
    /\ last' = [op |-> op, name |-> agent.name, agent |-> agent, res |-> out.res]
    /\ hist' = Append(hist, [op |-> op, name |-> agent.name, res |-> out.res])
    /\ UNCHANGED << target, env, resolved, listed, parsed, pc, inv, procs >>

InstallIdentity(agent) ==
    /\ Len(hist) < MaxOps
    /\ Ran("install_identity", agent, install_identity(target, env, fs, agent))

InstallSkills(agent) ==
    /\ Len(hist) < MaxOps
    /\ \E orders \in SkillOrders(agent.skills), served \in ServedSets :
          Ran("install_skills", agent,
              install_skills(target, env, fs, agent, orders, served))

InstallTools(agent) ==
    /\ Len(hist) < MaxOps
    /\ \E envOrders \in EnvOrders(agent.mcp) :
          Ran("install_tools", agent,
              install_tools(target, env, fs, agent, envOrders))

Uninstall(agent_name) ==
    /\ Len(hist) < MaxOps
    /\ LET out == uninstall(target, env, fs, agent_name)
       IN  /\ fs' = out.fs
           /\ last' = [op |-> "uninstall", name |-> agent_name, res |-> out.res]
           /\ hist' = Append(hist, [op |-> "uninstall", name |-> agent_name,
                                     res |-> out.res])
           /\ UNCHANGED << target, env, resolved, listed, parsed, pc, inv, procs >>

Next ==
    \/ \E agent \in InstallAgents : InstallIdentity(agent)
    \/ \E agent \in InstallAgents : InstallSkills(agent)
    \/ \E agent \in InstallAgents : InstallTools(agent)
    \/ \E agent_name \in UninstallNames : Uninstall(agent_name)

Spec == Init /\ [][Next]_vars

(***************************************************************************)
(* The registry resolver on its own: every call draws the responses of the *)
(* registry anew.                                                          *)
(***************************************************************************)
RequestNames == BuiltinNames \cup {<<"tokio", "patterns">>, <<"nope">>}

\* A descriptor served under the name of a built-in, with other content.
RemoteRustArchitect ==
    YamlMap([k \in RequiredAgentKeys \cup {"skills", "mcp"} |->
        CASE k = "name" -> <<"rust", "architect">>
          [] k = "version" -> "2.0.0"
          [] k = "description" -> <<"Remote rust architect">>
          [] k = "author" -> "registry"
          [] k = "identity" -> [model |-> <<"claude", "opus", "4">>,
                                system_prompt |-> <<"remote prompt">>]
          [] k = "skills" -> << [name |-> <<"remote", "skill">>,
                                 content |-> << Text("# Remote") >>],
                                [name |-> <<"async", "skill">>,
                                 description |-> <<"async rust">>,
                                 license |-> <<"MIT">>] >>
          [] k = "mcp" -> << [name |-> <<"files">>, command |-> "npx"],
                             [name |-> <<"context7">>, command |-> "uvx",
                              args |-> <<"context7">>,
                              env |-> [k2 \in {"A_KEY"} |-> "secret"]] >>])

\* A descriptor that omits skills and mcp.
RemoteMinimal ==
    YamlMap([k \in RequiredAgentKeys |->
        CASE k = "name" -> <<"nope">>
          [] k = "version" -> "0.0.1"
          [] k = "description" -> <<"Minimal">>
          [] k = "author" -> "registry"
          [] k = "identity" -> [system_prompt |-> <<"minimal prompt">>]])

\* A mapping without the required identity.
RemoteIncomplete ==
    YamlMap([k \in {"name", "version"} |->
        IF k = "name" THEN <<"nope">> ELSE "0.0.1"])

DescriptorResponses ==
    {ConnFail, Non2xx, ReadFail} \cup
    {Body(b) : b \in {YamlJunk, RemoteIncomplete, RemoteRustArchitect, RemoteMinimal}}

SkillResponses == {ConnFail, Non2xx, ReadFail} \cup {Body(doc) : doc \in SkillDocs}

ManifestResponses ==
    {ConnFail, Non2xx, ReadFail, Body(None), Body(Some(<< >>)),
     Body(Some(<< AgentInfo(<<"nope">>, "0.0.1", <<"Minimal">>, "registry") >>))}

FetchAgent(name) ==
    /\ \E descResp \in DescriptorResponses, skillResp \in SkillResponses :
          resolved' = [called |-> TRUE, name |-> name,
                       descResp |-> descResp, skillResp |-> skillResp,
                       out |-> fetch_agent(name, descResp, skillResp)]
    /\ UNCHANGED << target, env, fs, last, hist, listed, parsed, pc, inv, procs >>

FetchAgents ==
    /\ \E resp \in ManifestResponses :
          listed' = [called |-> TRUE, resp |-> resp, out |-> fetch_agents(resp)]
    /\ UNCHANGED << target, env, fs, last, hist, resolved, parsed, pc, inv, procs >>

RegistryInit ==
    /\ target = "claude"
    /\ env = Env("linux", TRUE, TRUE, FALSE)
    /\ fs = EmptyFs
    /\ last = NoOp
    /\ hist = << >>
    /\ resolved = NoCall
    /\ listed = NoCall
    /\ parsed = NoCall
    /\ pc = "idle"
    /\ inv = Idle
    /\ procs = NoProcs

RegistryNext ==
    \/ \E name \in RequestNames : FetchAgent(name)
    \/ FetchAgents

RegistrySpec == RegistryInit /\ [][RegistryNext]_vars

(***************************************************************************)
(* Registry::parse_skill_md on its own: the requested name and the         *)
(* document are drawn at the start, the call is applied to them once.      *)
(***************************************************************************)
\* Longest document of which every token sequence is tried.
MaxDocLen == 4

ParseNames == {<<"tokio", "patterns">>, <<"my", "skill">>}

ParseTokens ==
    {Dash3, Dash, Nl, Cr, Kv("name", <<"tokio", "patterns">>),
     Kv("description", <<"tokio skill">>), Junk, Text("BODY")}

ShortDocs == UNION {[1..n -> ParseTokens] : n \in 0..MaxDocLen}

\* Longer documents: "---", a line break, a block, a closing line (or none)
\* and a body.
LineBreaks == {<<Nl>>, <<Cr, Nl>>}

Blocks ==
    { << Kv("name", <<"tokio", "patterns">>) >>,
      << Kv("name", <<"tokio", "patterns">>), Nl, Kv("description", <<"tokio skill">>) >>,
      << Kv("description", <<"no name">>), Nl, Kv("license", <<"MIT">>) >>,
      << Kv("name", <<"tokio", "patterns">>), Nl,
         Kv("metadata", [author |-> "ax", version |-> "1.2"]) >>,
      << Junk >>,
      << Kv("name", <<"tokio", "patterns">>), Nl, Junk >>,
      << Kv("name", <<"tokio", "patterns">>), Nl, Kv("name", <<"other">>) >> }

Closings == {<< >>, <<Nl, Dash3>>, <<Cr, Nl, Dash3>>}

Bodies ==
    { << >>, <<Nl, Text("BODY")>>, <<Nl, Nl, Text("BODY")>>,
      <<Cr, Nl, Text("BODY"), Nl>>,
      <<Nl, Text("BODY"), Nl, Dash3, Nl, Text("MORE")>>,
      <<Dash, Nl, Text("BODY")>> }

FrontmatterDocs ==
    {<<Dash3>> \o br \o block \o closing \o body :
        br \in LineBreaks, block \in Blocks, closing \in Closings, body \in Bodies}

ParseDocs == ShortDocs \cup FrontmatterDocs \cup SkillDocs

ParseSkillMd ==
    /\ ~parsed.called
    /\ parsed' = [called |-> TRUE, name |-> parsed.name, doc |-> parsed.doc,
                  out |-> parse_skill_md(parsed.name, parsed.doc)]
    /\ UNCHANGED << target, env, fs, last, hist, resolved, listed, pc, inv, procs >>

ParseInit ==
    /\ target = "claude"
    /\ env = Env("linux", TRUE, TRUE, FALSE)
    /\ fs = EmptyFs
    /\ last = NoOp
    /\ hist = << >>
    /\ resolved = NoCall
    /\ listed = NoCall
    /\ \E name \in ParseNames, doc \in ParseDocs :
          parsed = [called |-> FALSE, name |-> name, doc |-> doc]
    /\ pc = "idle"
    /\ inv = Idle
    /\ procs = NoProcs

ParseNext == ParseSkillMd

ParseSpec == ParseInit /\ [][ParseNext]_vars

(***************************************************************************)
(* The install command: src/src/cli/commands/install.rs (execute).  One    *)
(* behaviour is one invocation; pc is the statement it is at.              *)
(***************************************************************************)
InstallNames == {<<"rust", "architect">>, <<"tokio", "patterns">>, <<"nope">>}

\* The sets of commands found in PATH.
PathSets == { {}, {"npx", "uvx"} }

\* validation::check_agent_dependencies
check_agent_dependencies(agent, path) ==
    {agent.mcp[i].command : i \in {j \in 1..Len(agent.mcp) : agent.mcp[j].command \notin path}}

\* File systems on which an adapter operation fails: a file where the
\* adapter needs a directory, a directory where it needs the tool-config
\* document.
BlockedPaths(tgt, platform) ==
    CASE tgt = "claude" ->
            IF ClaudeGetBaseDir(platform, EmptyFs).some
            THEN {ClaudeGetBaseDir(platform, EmptyFs).v \o << C("agents") >>,
                  ClaudeGetBaseDir(platform, EmptyFs).v \o << C("skills") >>}
            ELSE {}
      [] tgt = "cursor" ->
            IF CursorGetRulesDir(platform).some THEN {CursorGetRulesDir(platform).v} ELSE {}
      [] tgt = "codex" ->
            IF CodexGetSkillsDir(platform).some THEN {CodexGetSkillsDir(platform).v} ELSE {}

\* The place one skill of the built-in rust-architect agent is written to:
\* its directory on the skill-standard targets, its rule file on Cursor.
BlockedSkills(tgt, platform) ==
    LET names == {rust_architect_agent.skills[i].name :
                    i \in 1..Len(rust_architect_agent.skills)}
    IN  CASE tgt = "claude" ->
                IF ClaudeGetBaseDir(platform, EmptyFs).some
                THEN {ClaudeGetBaseDir(platform, EmptyFs).v \o << C("skills"), n >> :
                        n \in names}
                ELSE {}
          [] tgt = "cursor" ->
                IF CursorGetRulesDir(platform).some
                THEN {CursorGetRulesDir(platform).v
                        \o << rust_architect_agent.name \o n \o <<".mdc">> >> :
                        n \in names}
                ELSE {}
          [] tgt = "codex" ->
                IF CodexGetSkillsDir(platform).some
                THEN {CodexGetSkillsDir(platform).v \o << n >> : n \in names}
                ELSE {}

FaultFs(tgt, platform) ==
    {[dirs |-> Prefixes(Parent(path)),
      files |-> [q \in {path} |-> << Line("other", <<"not a directory">>) >>]]
        : path \in BlockedPaths(tgt, platform)}
    \cup
    (IF ToolConfigPath(tgt, platform).some
     THEN {[dirs |-> Prefixes(ToolConfigPath(tgt, platform).v), files |-> EmptyMap]}
     ELSE {})
    \cup
    {IF tgt = "cursor"
     THEN [dirs |-> Prefixes(path), files |-> EmptyMap]
     ELSE [dirs |-> Prefixes(Parent(path)),
           files |-> [q \in {path} |-> << Line("other", <<"not a directory">>) >>]]
        : path \in BlockedSkills(tgt, platform)}

\* execute with the tools configured before the skills are installed.
FollowingToolsFirst(step, agent) ==
    CASE step = "resolve" -> "deps"
      [] step = "deps" -> "identity"
      [] step = "install_identity" ->
            IF agent.mcp # << >> THEN "tools"
            ELSE IF agent.skills # << >> THEN "skills" ELSE "done"
      [] step = "install_tools" ->
            IF agent.skills # << >> THEN "skills" ELSE "done"
      [] step = "install_skills" -> "done"

\* The statement execute goes to after a step that succeeded.
Following(step, agent) ==
    CASE step = "resolve" -> "deps"
      [] step = "deps" -> "identity"
      [] step = "install_identity" ->
            IF agent.skills # << >> THEN "skills"
            ELSE IF agent.mcp # << >> THEN "tools" ELSE "done"
      [] step = "install_skills" ->
            IF agent.mcp # << >> THEN "tools" ELSE "done"
      [] step = "install_tools" -> "done"

\* The ? operator that lets an Err pass.
PropagateNothing(res, next) ==
    IF res = "panic" THEN "panicked" ELSE next

\* The ? operator after an adapter operation: an Err ends execute.
Propagate(res, next) ==
    CASE res = "ok" -> next
      [] res = "err" -> "failed"
      [] res = "panic" -> "panicked"

\* The agent execute holds after step 1.
FetchedAgent == resolved.out.result.v

Traced(step) == [inv EXCEPT !.trace = Append(@, step)]

ExecFetchAgent ==
    /\ pc = "resolve"
    /\ \E descResp \in DescriptorResponses, skillResp \in SkillResponses :
          LET out == fetch_agent(inv.name, descResp, skillResp)
          IN  /\ resolved' = [called |-> TRUE, name |-> inv.name,
                              descResp |-> descResp, skillResp |-> skillResp,
                              out |-> out]
              /\ pc' = IF out.result.ok THEN Following("resolve", inv) ELSE "failed"
              /\ inv' = [Traced("resolve") EXCEPT
                            !.error = IF out.result.ok THEN ""
                                      ELSE "Agent not found in registry"]
    /\ UNCHANGED << target, env, fs, last, hist, listed, parsed, procs >>

ExecCheckDependencies ==
    /\ pc = "deps"
    /\ \E path \in PathSets :
          inv' = [Traced("deps") EXCEPT
                     !.missing = check_agent_dependencies(FetchedAgent, path)]
    /\ pc' = Following("deps", FetchedAgent)
    /\ UNCHANGED << target, env, fs, last, hist, resolved, listed, parsed, procs >>

\* An adapter operation called by execute and the ? that follows it.
ExecRan(op, out) ==
    /\ fs' = out.fs
    /\ last' = [op |-> op, name |-> FetchedAgent.name, agent |-> FetchedAgent,
                res |-> out.res]
    /\ hist' = Append(hist, [op |-> op, name |-> FetchedAgent.name, res |-> out.res])
    /\ pc' = Propagate(out.res, Following(op, FetchedAgent))
    /\ inv' = [Traced(op) EXCEPT !.error = IF out.res = "ok" THEN "" ELSE op]
    /\ UNCHANGED << target, env, resolved, listed, parsed, procs >>

ExecInstallIdentity ==
    /\ pc = "identity"
    /\ ExecRan("install_identity", install_identity(target, env, fs, FetchedAgent))

ExecInstallSkills ==
    /\ pc = "skills"
    /\ \E orders \in SkillOrders(FetchedAgent.skills), served \in ServedSets :
          ExecRan("install_skills",
                  install_skills(target, env, fs, FetchedAgent, orders, served))

ExecInstallTools ==
    /\ pc = "tools"
    /\ \E envOrders \in EnvOrders(FetchedAgent.mcp) :
          ExecRan("install_tools",
                  install_tools(target, env, fs, FetchedAgent, envOrders))

InstallInit ==
    /\ target \in Targets
    /\ env \in Platforms(target)
    /\ fs \in SeedFs(target, env) \cup FaultFs(target, env)
    /\ last = NoOp
    /\ hist = << >>
    /\ resolved = NoCall
    /\ listed = NoCall
    /\ parsed = NoCall
    /\ pc = "resolve"
    /\ procs = NoProcs
    /\ \E name \in InstallNames : inv = [Idle EXCEPT !.name = name, !.start = fs]

InstallNext ==
    \/ ExecFetchAgent
    \/ ExecCheckDependencies
    \/ ExecInstallIdentity
    \/ ExecInstallSkills
    \/ ExecInstallTools

InstallSpec == InstallInit /\ [][InstallNext]_vars

(***************************************************************************)
(* Two install_tools operations of a JSON target running side by side, as  *)
(* two invocations of the command do.  The operation takes no lock, so the *)
(* steps of the two interleave at the calls that touch the file system:    *)
(* the read of the document and the rewrite.                               *)
(***************************************************************************)
RaceAgents == {a \in InstallAgents : a.mcp # << >>}

Proc(agent) ==
    [agent |-> agent, at |-> "load", loaded |-> JNull, config |-> JNull, seen |-> 0]

\* let mut config: Value = if config_path.exists() { .. } else { .. }
LoadToolConfig(tgt, f, config_path) ==
    LET fallback == IF tgt = "claude" THEN JObject(EmptyMap) ELSE EmptyServers
    IN  IF Exists(f, config_path)
        THEN FromStrOr(f.files[config_path], fallback) ELSE fallback

\* The mcpServers test and the loop over agent.mcp, on the loaded value.
MergeToolConfig(tgt, loaded, agent) ==
    AddTools(EnsureServers(loaded),
             [i \in 1..Len(agent.mcp) |->
                IF tgt = "claude" THEN ClaudeToolConfig(agent.mcp[i])
                ELSE CursorToolConfig(agent.mcp[i])])

\* StoredConfig that reads the document again when it writes.
StoredConfigReread(f, proc) ==
    MergeToolConfig(target, LoadToolConfig(target, f, ToolConfigPath(target, env).v),
                    proc.agent)

\* The value fs::write gets: the local variable config.
StoredConfig(f, proc) == proc.config

\* The operation up to the end of the loop: it reads the document and
\* merges its tools into the value in memory.
RaceLoad(p) ==
    /\ procs[p].at = "load"
    /\ LET path == ToolConfigPath(target, env).v
           loaded == LoadToolConfig(target, fs, path)
           config == MergeToolConfig(target, loaded, procs[p].agent)
       IN  procs' = [procs EXCEPT ![p] =
                        [agent |-> @.agent,
                         at |-> IF Exists(fs, path) /\ ~IsFile(fs, path) THEN "failed"
                                ELSE IF config.t = "panic" THEN "panicked"
                                ELSE "store",
                         loaded |-> loaded, config |-> config, seen |-> Len(hist)]]
    /\ UNCHANGED << target, env, fs, last, hist, resolved, listed, parsed, pc, inv >>

\* The rest of the operation: create_dir_all of the parent and fs::write.
RaceStore(p) ==
    /\ procs[p].at = "store"
    /\ LET path == ToolConfigPath(target, env).v
           out == Run(fs, << CreateDirAll(Parent(path)),
                            Write(path, ToStringPretty(StoredConfig(fs, procs[p]))) >>)
       IN  /\ fs' = out.fs
           /\ last' = [op |-> "install_tools", name |-> procs[p].agent.name,
                       agent |-> procs[p].agent, res |-> out.res, proc |-> p]
           /\ hist' = Append(hist, [op |-> "install_tools",
                                    name |-> procs[p].agent.name,
                                    res |-> out.res, proc |-> p])
           /\ procs' = [procs EXCEPT ![p].at = IF out.res = "ok" THEN "done"
                                               ELSE "failed"]
    /\ UNCHANGED << target, env, resolved, listed, parsed, pc, inv >>

RaceInit ==
    /\ target \in JsonTargets
    /\ env \in {e \in Platforms(target) : ToolConfigPath(target, e).some}
    /\ fs \in SeedFs(target, env)
    /\ last = NoOp
    /\ hist = << >>
    /\ resolved = NoCall
    /\ listed = NoCall
    /\ parsed = NoCall
    /\ pc = "idle"
    /\ inv = Idle
    /\ procs \in [1..2 -> {Proc(a) : a \in RaceAgents}]

RaceNext == \E p \in DOMAIN procs : RaceLoad(p) \/ RaceStore(p)

RaceSpec == RaceInit /\ [][RaceNext]_vars

(***************************************************************************)
(* install_identity of Claude for agents whose model identifier ranges     *)
(* over the short sequences of fragments; a family name is a fragment.     *)
(***************************************************************************)
MaxModelLen == 3

ModelFragments == {"claude", "sonnet", "opus", "haiku", "Opus", "4o"}

ModelIds ==
    {None} \cup {Some(m) : m \in UNION {[1..n -> ModelFragments] : n \in 0..MaxModelLen}}

ModelAgent(model) == [rust_agent EXCEPT !.identity.model = model]

InstallIdentityWithModel(model) ==
    /\ hist = << >>
    /\ Ran("install_identity", ModelAgent(model),
           install_identity(target, env, fs, ModelAgent(model)))

ModelInit ==
    /\ target = "claude"
    /\ env \in Platforms(target)
    /\ fs \in SeedFs(target, env)
    /\ last = NoOp
    /\ hist = << >>
    /\ resolved = NoCall
    /\ listed = NoCall
    /\ parsed = NoCall
    /\ pc = "idle"
    /\ inv = Idle
    /\ procs = NoProcs

ModelNext == \E model \in ModelIds : InstallIdentityWithModel(model)

ModelSpec == ModelInit /\ [][ModelNext]_vars

(***************************************************************************)
(* install_tools for agents whose tool list ranges over the short lists of *)
(* three tools, two of which bear the same name.                           *)
(***************************************************************************)
MaxTools == 3

ToolPool == {context7, rust_agent.mcp[1], rust_agent.mcp[2]}

ToolLists == UNION {[1..n -> ToolPool] : n \in 0..MaxTools}

ToolsAgent(tools) == [rust_agent EXCEPT !.mcp = tools]

InstallToolsOf(tools) ==
    /\ hist = << >>
    /\ \E envOrders \in EnvOrders(tools) :
          Ran("install_tools", ToolsAgent(tools),
              install_tools(target, env, fs, ToolsAgent(tools), envOrders))

ToolsInit ==
    /\ target \in Targets
    /\ env \in Platforms(target)
    /\ fs \in SeedFs(target, env)
    /\ last = NoOp
    /\ hist = << >>
    /\ resolved = NoCall
    /\ listed = NoCall
    /\ parsed = NoCall
    /\ pc = "idle"
    /\ inv = Idle
    /\ procs = NoProcs

ToolsNext == \E tools \in ToolLists : InstallToolsOf(tools)

ToolsSpec == ToolsInit /\ [][ToolsNext]_vars

(***************************************************************************)
(* Properties of the registry resolver (checked under RegistrySpec).       *)
(***************************************************************************)
\* What each tier would yield on its own, read off the responses.
DescriptorTierOk(resp) ==
    resp.conn /\ resp.success /\ resp.readable /\ resp.body.kind = "mapping"
    /\ RequiredAgentKeys \subseteq DOMAIN resp.body.m

SkillTierOk(resp) == resp.conn /\ resp.success /\ resp.readable

BuiltinTierOk(name) == name \in BuiltinNames

StepTiers(steps) == [i \in 1..Len(steps) |-> steps[i].tier]

\* C1: fetch_agent returns an error only if the descriptor tier, the skill
\* tier and the built-in lookup all fail; in particular it returns an agent
\* for every built-in name, whatever the registry answers.
C1_ErrorOnlyIfAllTiersFail ==
    resolved.called =>
        /\ ~resolved.out.result.ok =>
              /\ ~DescriptorTierOk(resolved.descResp)
              /\ ~SkillTierOk(resolved.skillResp)
              /\ ~BuiltinTierOk(resolved.name)
        /\ BuiltinTierOk(resolved.name) => resolved.out.result.ok

\* C2: an error returned by fetch_agent is always the not-found error naming
\* the requested identifier, never the failure of one tier.
C2_ErrorIsNotFound ==
    (resolved.called /\ ~resolved.out.result.ok) =>
        resolved.out.result.err =
            [kind |-> "not found in registry", name |-> resolved.name]

\* C3: the tiers are tried in the order descriptor, skill, built-in; the skill
\* tier is contacted only after the descriptor tier did not succeed, the
\* built-in table only after both remote tiers did not succeed, no tier is
\* contacted after a success, and the agent returned is the one of the last
\* tier contacted, whole.
C3_TierOrderFirstSuccessWins ==
    resolved.called =>
        LET steps == resolved.out.steps
            tiers == StepTiers(steps)
            result == resolved.out.result
        IN  /\ tiers \in {<<"descriptor">>, <<"descriptor", "skill">>,
                          <<"descriptor", "skill", "builtin">>}
            /\ steps[1].resp = resolved.descResp
            /\ Len(steps) >= 2 =>
                  /\ ~DescriptorTierOk(resolved.descResp)
                  /\ steps[2].resp = resolved.skillResp
            /\ Len(steps) = 3 => ~SkillTierOk(resolved.skillResp)
            /\ DescriptorTierOk(resolved.descResp) =>
                  /\ tiers = <<"descriptor">>
                  /\ result.ok
                  /\ result.v.name = resolved.descResp.body.m["name"]
                  /\ result.v.identity.system_prompt =
                        resolved.descResp.body.m["identity"]["system_prompt"]
            /\ (Len(steps) >= 2 /\ SkillTierOk(resolved.skillResp)) =>
                  /\ tiers = <<"descriptor", "skill">>
                  /\ result.ok
                  /\ result.v.author = "community"
                  /\ Len(result.v.skills) = 1
                  /\ result.v.mcp = << >>
            /\ (result.ok /\ Len(steps) = 3) =>
                  /\ BuiltinTierOk(resolved.name)
                  /\ result.v \in {rust_architect_agent, fullstack_next_agent,
                                   qa_testing_squad_agent}
                  /\ result.v.name = resolved.name

\* A remote skill named like a built-in was returned instead of the built-in.
C3_Witness ==
    /\ resolved.called
    /\ resolved.name = <<"rust", "architect">>
    /\ StepTiers(resolved.out.steps) = <<"descriptor", "skill">>
    /\ resolved.out.result.ok
    /\ resolved.out.result.v # rust_architect_agent

\* C4: fetch_agents never returns an error; when the manifest request fails
\* to connect, is answered with a non-2xx status or with a body that is not a
\* list of summaries, it returns the built-in summaries, at least one.
C4_ListNeverFails ==
    listed.called =>
        /\ listed.out.ok
        /\ ( \/ ~listed.resp.conn \/ ~listed.resp.success
             \/ ~listed.resp.readable \/ ~listed.resp.body.some ) =>
              /\ listed.out.v = get_builtin_agents
              /\ Len(listed.out.v) >= 1

\* The descriptor served is valid: a mapping with the required keys, an
\* identity with a system prompt, named skills and tools with name and command.
ValidDescriptor(resp) ==
    /\ resp.conn /\ resp.success /\ resp.readable
    /\ resp.body.kind = "mapping"
    /\ RequiredAgentKeys \subseteq DOMAIN resp.body.m
    /\ "system_prompt" \in DOMAIN resp.body.m["identity"]
    /\ "skills" \in DOMAIN resp.body.m =>
          \A i \in 1..Len(resp.body.m["skills"]) :
              "name" \in DOMAIN resp.body.m["skills"][i]
    /\ "mcp" \in DOMAIN resp.body.m =>
          \A i \in 1..Len(resp.body.m["mcp"]) :
              {"name", "command"} \subseteq DOMAIN resp.body.m["mcp"][i]

\* The value read for an optional key equals the key of the mapping.
SameOption(opt, m, key) ==
    IF key \in DOMAIN m THEN opt.some /\ opt.v = m[key] ELSE ~opt.some

SameSkill(skill, m) ==
    /\ skill.name = m["name"]
    /\ skill.content = (IF "content" \in DOMAIN m THEN m["content"] ELSE << >>)
    /\ SameOption(skill.description, m, "description")
    /\ SameOption(skill.allowed_tools, m, "allowed-tools")
    /\ SameOption(skill.license, m, "license")
    /\ SameOption(skill.compatibility, m, "compatibility")
    /\ SameOption(skill.metadata, m, "metadata")
    /\ SameOption(skill.dependencies, m, "dependencies")

SameTool(tool, m) ==
    /\ tool.name = m["name"]
    /\ tool.command = m["command"]
    /\ tool.args = (IF "args" \in DOMAIN m THEN m["args"] ELSE << >>)
    /\ tool.env = (IF "env" \in DOMAIN m THEN m["env"] ELSE EmptyMap)
    /\ SameOption(tool.setup_url, m, "setup_url")

\* C13: when a valid descriptor D is served with a 2xx status at the
\* descriptor path of D.name, fetch_agent(D.name) returns an agent equal to
\* D: same name, version, description, author and identity, the skills and
\* the tools of D in D's order, and empty lists for the ones D omits.
C13_DescriptorRoundTrip ==
    ( /\ resolved.called
      /\ ValidDescriptor(resolved.descResp)
      /\ resolved.descResp.body.m["name"] = resolved.name )
    =>
    LET D == resolved.descResp.body.m
        result == resolved.out.result
        skills == IF "skills" \in DOMAIN D THEN D["skills"] ELSE << >>
        mcp == IF "mcp" \in DOMAIN D THEN D["mcp"] ELSE << >>
    IN  /\ result.ok
        /\ result.v.name = D["name"]
        /\ result.v.version = D["version"]
        /\ result.v.description = D["description"]
        /\ result.v.author = D["author"]
        /\ result.v.identity.system_prompt = D["identity"]["system_prompt"]
        /\ SameOption(result.v.identity.model, D["identity"], "model")
        /\ SameOption(result.v.identity.icon, D["identity"], "icon")
        /\ Len(result.v.skills) = Len(skills)
        /\ \A i \in 1..Len(skills) : SameSkill(result.v.skills[i], skills[i])
        /\ Len(result.v.mcp) = Len(mcp)
        /\ \A i \in 1..Len(mcp) : SameTool(result.v.mcp[i], mcp[i])

\* A descriptor with two skills and two tools came back in its order.
C13_Witness ==
    /\ resolved.called
    /\ resolved.name = <<"rust", "architect">>
    /\ resolved.descResp = Body(RemoteRustArchitect)
    /\ resolved.out.result.ok
    /\ Len(resolved.out.result.v.skills) = 2
    /\ resolved.out.result.v.skills[2].name = <<"async", "skill">>
    /\ Len(resolved.out.result.v.mcp) = 2
    /\ resolved.out.result.v.mcp[1].name = <<"files">>

\* The skill tier is the one that answered.
SkillTierAnswered ==
    /\ resolved.called
    /\ resolved.out.result.ok
    /\ StepTiers(resolved.out.steps) = <<"descriptor", "skill">>

\* C18: when the skill tier succeeds, fetch_agent returns a synthetic agent
\* named as requested, version "1.0.0", author "community", whose only skill
\* is the parsed skill document with remote_base_url {base}/{name}, and
\* which has no tools.
C18_SyntheticSkillAgent ==
    SkillTierAnswered =>
        LET agent == resolved.out.result.v
        IN  /\ agent.name = resolved.name
            /\ agent.version = "1.0.0"
            /\ agent.author = "community"
            /\ agent.mcp = << >>
            /\ Len(agent.skills) = 1
            /\ agent.skills[1].remote_base_url =
                  [some |-> TRUE, v |-> [base |-> "{base}", name |-> resolved.name]]
            /\ [agent.skills[1] EXCEPT !.remote_base_url = [some |-> FALSE]]
                  = parse_skill_md(resolved.name, resolved.skillResp.body)

\* The skill tier wrapped a document whose frontmatter names the skill.
C18_Witness ==
    /\ SkillTierAnswered
    /\ resolved.name = <<"nope">>
    /\ resolved.skillResp = Body(TokioSkillDoc)
    /\ resolved.out.result.v.skills[1].name = <<"tokio", "patterns">>
    /\ resolved.out.result.v.skills[1].remote_base_url.some

(***************************************************************************)
(* Properties of the installer adapters (checked under Spec).              *)
(***************************************************************************)
\* The target's tool-config path in the current behaviour.
DocPath == ToolConfigPath(target, env)

\* An adapter operation named op is the step being taken.
Runs(op) == hist' # hist /\ last'.op = op

ToolNames(agent) == {agent.mcp[i].name : i \in 1..Len(agent.mcp)}

FirstToolNamed(agent, name) ==
    agent.mcp[CHOOSE i \in 1..Len(agent.mcp) :
        /\ agent.mcp[i].name = name
        /\ \A j \in 1..Len(agent.mcp) : agent.mcp[j].name = name => i <= j]

LastToolNamed(agent, name) ==
    agent.mcp[CHOOSE i \in 1..Len(agent.mcp) :
        /\ agent.mcp[i].name = name
        /\ \A j \in 1..Len(agent.mcp) : agent.mcp[j].name = name => j <= i]

\* The existing document is JSON, an object whose server mapping, if it has
\* one, is an object.
HasServerMapping(file) ==
    /\ file.kind = "json"
    /\ file.val.t = "object"
    /\ "mcpServers" \in DOMAIN file.val.m => file.val.m["mcpServers"].t = "object"

ServerKeys(file) ==
    IF "mcpServers" \in DOMAIN file.val.m
    THEN DOMAIN file.val.m["mcpServers"].m ELSE {}

C5_Step ==
    ( /\ Runs("install_tools")
      /\ target \in JsonTargets
      /\ DocPath.some
      /\ IsFile(fs, DocPath.v)
      /\ HasServerMapping(fs.files[DocPath.v]) )
    =>
    LET agent == last'.agent
        old == fs.files[DocPath.v]
        K == ServerKeys(old)
        T == ToolNames(agent)
    IN  IF T = {} THEN fs' = fs
        ELSE
          /\ last'.res = "ok"
          /\ IsFile(fs', DocPath.v)
          /\ LET new == fs'.files[DocPath.v]
             IN  /\ new.kind = "json"
                 /\ new.val.t = "object"
                 /\ DOMAIN new.val.m = DOMAIN old.val.m \cup {"mcpServers"}
                 /\ \A key \in DOMAIN old.val.m \ {"mcpServers"} :
                        new.val.m[key] = old.val.m[key]
                 /\ new.val.m["mcpServers"].t = "object"
                 /\ LET servers == new.val.m["mcpServers"].m
                    IN  /\ DOMAIN servers = K \cup T
                        /\ \A key \in K \ T :
                              servers[key] = old.val.m["mcpServers"].m[key]
                        /\ \A name \in T :
                              LET tool == LastToolNamed(agent, name)
                              IN  /\ servers[name].t = "object"
                                  /\ DOMAIN servers[name].m =
                                        {"command", "args", "env"} \cup
                                        (IF target = "claude" THEN {"type"} ELSE {})
                                  /\ servers[name].m["command"] = JString(tool.command)
                                  /\ servers[name].m["args"].m = tool.args
                                  /\ servers[name].m["env"].m = tool.env

\* C5: on the JSON targets install_tools merges without destroying: with K
\* the keys of the existing server mapping and T the agent's tool names, the
\* mapping afterwards has the keys K \cup T, the keys of K \ T keep their
\* values, every key of T holds the rendering of the agent's tool, and every
\* other top-level key is unchanged.
C5_NonDestructiveMerge == [][C5_Step]_vars

\* A merge that kept the user's github server and theme and overwrote the
\* user's context7 server.
C5_Witness ==
    /\ last.op = "install_tools" /\ last.res = "ok"
    /\ target \in JsonTargets
    /\ DocPath.some /\ IsFile(fs, DocPath.v)
    /\ fs.files[DocPath.v].kind = "json"
    /\ "theme" \in DOMAIN fs.files[DocPath.v].val.m
    /\ LET servers == fs.files[DocPath.v].val.m["mcpServers"].m
       IN  /\ <<"github">> \in DOMAIN servers
           /\ servers[<<"github">>] = UserServer("gh")
           /\ <<"context7">> \in DOMAIN servers
           /\ servers[<<"context7">>] # UserServer("docker")

\* The text "[mcp_servers.<name>]" occurs in the content.
HeaderOccurs(content, name) ==
    \E i \in 1..Len(content) :
        content[i] \in {Line("header", name), Line("# header", name)}

C6_Step ==
    ( /\ Runs("install_tools")
      /\ target = "codex"
      /\ DocPath.some
      /\ ~IsDir(fs, DocPath.v) )
    =>
    LET agent == last'.agent
        old == IF IsFile(fs, DocPath.v) THEN fs.files[DocPath.v] ELSE << >>
    IN  IF agent.mcp = << >> THEN fs' = fs
        ELSE
          /\ last'.res = "ok"
          /\ IsFile(fs', DocPath.v)
          /\ LET new == fs'.files[DocPath.v]
             IN  /\ Len(new) >= Len(old)
                 /\ SubSeq(new, 1, Len(old)) = old
                 /\ \A name \in ToolNames(agent) :
                      LET added == {j \in (Len(old) + 1)..Len(new) :
                                        new[j] = Line("header", name)}
                      IN  IF HeaderOccurs(old, name) THEN added = {}
                          ELSE /\ Cardinality(added) = 1
                               /\ \A j \in added :
                                    /\ j < Len(new)
                                    /\ new[j + 1] = Line("command",
                                          << FirstToolNamed(agent, name).command >>)
                 /\ (\A name \in ToolNames(agent) : HeaderOccurs(old, name))
                        => new = old

\* C6: on the Codex config.toml, install_tools adds nothing for a tool whose
\* header [mcp_servers.<name>] already occurs in the file and rewrites
\* nothing of the existing content, whatever the tool's command, args or env;
\* a tool whose header is absent gets exactly one section, appended after the
\* existing content.
C6_SkipIfPresent == [][C6_Step]_vars

\* The user's context7 section survived an install of a context7 tool with
\* another command, and the files tool got its section.
C6_Witness ==
    /\ last.op = "install_tools" /\ last.res = "ok"
    /\ target = "codex"
    /\ last.agent = rust_agent
    /\ DocPath.some /\ IsFile(fs, DocPath.v)
    /\ LET content == fs.files[DocPath.v]
       IN  /\ \E i \in 1..(Len(content) - 1) :
                  /\ content[i] = Line("header", <<"context7">>)
                  /\ content[i + 1] = Line("command", <<"docker">>)
           /\ Cardinality({i \in 1..Len(content) :
                              content[i] = Line("header", <<"context7">>)}) = 1
           /\ \E i \in 1..Len(content) : content[i] = Line("header", <<"files">>)

C7_Step ==
    (Runs("uninstall") /\ DocPath.some)
    =>
    /\ IsFile(fs', DocPath.v) <=> IsFile(fs, DocPath.v)
    /\ IsDir(fs', DocPath.v) <=> IsDir(fs, DocPath.v)
    /\ IsFile(fs, DocPath.v) => fs'.files[DocPath.v] = fs.files[DocPath.v]

\* C7: uninstall leaves the target's tool-config document as it was: it
\* exists afterwards exactly if it existed before, with the same content.
C7_UninstallKeepsToolConfig == [][C7_Step]_vars

\* An uninstall that removed something ran while the tool-config document
\* written by install_tools was on disk.
C7_Witness ==
    /\ Len(hist) = 3
    /\ hist[1].op = "install_tools" /\ hist[1].res = "ok"
    /\ hist[2].op \in {"install_identity", "install_skills"}
    /\ hist[3].op = "uninstall" /\ hist[3].res = "ok"
    /\ hist[3].name = hist[2].name
    /\ DocPath.some /\ IsFile(fs, DocPath.v)

\* The agent of the model with the given name.
AgentNamed(name) == CHOOSE agent \in InstallAgents : agent.name = name

\* The identity documents of the agent on disk.
IdentityDocs(agent) ==
    {q \in DOMAIN fs.files :
        /\ Len(q) >= 2
        /\ \/ /\ target = "claude"
              /\ q[Len(q) - 1] = C("agents")
              /\ q[Len(q)] = agent.name \o <<".md">>
           \/ /\ target = "cursor"
              /\ q[Len(q) - 1] = C("rules")
              /\ q[Len(q)] = agent.name \o <<"identity", ".mdc">>}

\* The files and directories on disk that install_skills writes for the agent.
SkillArtifacts(agent) ==
    {q \in DOMAIN fs.files \cup fs.dirs :
        \E i \in 1..Len(agent.skills) :
            \/ /\ target \in {"claude", "codex"}
               /\ \E j \in 1..(Len(q) - 1) :
                     q[j] = C("skills") /\ q[j + 1] = agent.skills[i].name
            \/ /\ target = "cursor"
               /\ q[Len(q)] = agent.name \o agent.skills[i].name \o <<".mdc">>}

\* The behaviour so far ends with the three operations on one agent name.
EndsWith(op1, op2, op3) ==
    /\ Len(hist) >= 3
    /\ hist[Len(hist) - 2].op = op1 /\ hist[Len(hist) - 2].res = "ok"
    /\ hist[Len(hist) - 1].op = op2 /\ hist[Len(hist) - 1].res = "ok"
    /\ hist[Len(hist)].op = op3 /\ hist[Len(hist)].res = "ok"
    /\ hist[Len(hist) - 2].name = hist[Len(hist)].name
    /\ hist[Len(hist) - 1].name = hist[Len(hist)].name

\* C8: after install_identity and install_skills for an agent followed by
\* uninstall of its name, neither the agent's identity document nor any
\* artifact written for its skills is left on disk.
C8_UninstallRemovesArtifacts ==
    EndsWith("install_identity", "install_skills", "uninstall") =>
        /\ IdentityDocs(AgentNamed(last.name)) = {}
        /\ SkillArtifacts(AgentNamed(last.name)) = {}

\* The last two operations are the same successful operation on one agent.
Repeated(op) ==
    /\ Len(hist) >= 2
    /\ hist[Len(hist)].op = op /\ hist[Len(hist)].res = "ok"
    /\ hist[Len(hist) - 1] = hist[Len(hist)]

C9_Step ==
    ( /\ Runs("install_identity")
      /\ last.op = "install_identity"
      /\ last'.agent = last.agent )
    => (fs' = fs /\ last'.res = last.res)

\* C9: install_identity run a second time with the same agent leaves the
\* same files with the same content as the first run did.
C9_InstallIdentityIdempotent == [][C9_Step]_vars

\* The identity document is on disk after two runs for the same agent.
C9_Witness ==
    /\ Repeated("install_identity")
    /\ IdentityDocs(last.agent) # {}

C10_Step ==
    ( /\ Runs("install_tools")
      /\ last.op = "install_tools"
      /\ last'.agent = last.agent )
    => (fs' = fs /\ last'.res = last.res)

\* C10: install_tools run a second time with the same agent on the document
\* the first run produced leaves that document as it is, on every target.
C10_InstallToolsIdempotent == [][C10_Step]_vars

\* The sectioned-text document after two runs for an agent with two tools.
C10_Witness ==
    /\ Repeated("install_tools")
    /\ target = "codex"
    /\ last.agent = rust_agent
    /\ DocPath.some /\ IsFile(fs, DocPath.v)
    /\ HeaderOccurs(fs.files[DocPath.v], <<"files">>)

\* The skill entry documents on a file system: the SKILL.md files and the
\* .mdc rule files, with their content.
EntryDocs(f) ==
    [q \in {r \in DOMAIN f.files :
                r[Len(r)] = C("SKILL.md") \/ r[Len(r)][Len(r[Len(r)])] = ".mdc"}
        |-> f.files[q]]

C11_Step ==
    ( /\ Runs("install_skills")
      /\ last.op = "install_skills"
      /\ last'.agent = last.agent )
    => EntryDocs(fs') = EntryDocs(fs)

\* C11: install_skills run a second time with the same agent leaves the same
\* skill entry documents with the same content as the first run did, also
\* for a skill whose metadata mapping has two or more keys.
C11_InstallSkillsIdempotent == [][C11_Step]_vars

(***************************************************************************)
(* Properties of parse_skill_md (checked under ParseSpec).                 *)
(***************************************************************************)
\* Every field but name and content is the empty default.
OtherFieldsEmpty(skill) ==
    /\ ~skill.description.some
    /\ ~skill.allowed_tools.some
    /\ ~skill.license.some
    /\ ~skill.compatibility.some
    /\ ~skill.metadata.some
    /\ ~skill.dependencies.some
    /\ ~skill.source_dir.some

StartsWithDash3(doc) == doc # <<>> /\ doc[1] = Dash3

\* C14: for a document that does not start with ---, parse_skill_md yields
\* the whole document as content, the requested identifier as name and every
\* other field empty.
C14_NoFrontmatterWholeDocument ==
    (parsed.called /\ ~StartsWithDash3(parsed.doc)) =>
        /\ parsed.out.content = parsed.doc
        /\ parsed.out.name = parsed.name
        /\ OtherFieldsEmpty(parsed.out)

\* A document whose --- comes after a leading line break, kept whole.
C14_Witness ==
    /\ parsed.called
    /\ Len(parsed.doc) >= 3
    /\ parsed.doc[1] = Nl /\ parsed.doc[2] = Dash3
    /\ parsed.out.content = parsed.doc

\* The document is ---, newline, name: X, newline, ---, then nothing or
\* line breaks and a body.
NameOnlyForm(doc) ==
    /\ Len(doc) >= 5
    /\ doc[1] = Dash3 /\ doc[2] = Nl
    /\ doc[3].t = "kv" /\ doc[3].key = "name" /\ doc[3].val # <<>>
    /\ doc[4] = Nl /\ doc[5] = Dash3
    /\ Len(doc) > 5 => doc[6] = Nl

\* C15: for a document ---, newline, name: X, newline, ---, newline(s), BODY
\* parse_skill_md yields name X and as content the text after the closing ---
\* without its leading line breaks; content is empty when the document ends
\* right after the closing ---.
C15_NameAndTrimmedBody ==
    (parsed.called /\ NameOnlyForm(parsed.doc)) =>
        LET doc == parsed.doc
            content == parsed.out.content
            cut == Len(doc) - Len(content)
        IN  /\ parsed.out.name = doc[3].val
            /\ Len(doc) = 5 => content = << >>
            /\ cut >= 5
            /\ content = SubSeq(doc, cut + 1, Len(doc))
            /\ \A i \in 6..cut : doc[i] \in {Nl, Cr}
            /\ content # << >> => Head(content) \notin {Nl, Cr}

\* Two line breaks before the body were removed and the name of the
\* frontmatter, not the requested one, was kept.
C15_Witness ==
    /\ parsed.called
    /\ parsed.doc = << Dash3, Nl, Kv("name", <<"tokio", "patterns">>), Nl, Dash3,
                       Nl, Nl, Text("BODY") >>
    /\ parsed.name = <<"my", "skill">>
    /\ parsed.out.name = <<"tokio", "patterns">>
    /\ parsed.out.content = << Text("BODY") >>

\* The frontmatter block of a document that starts with --- and has a
\* closing line, as the lines between the two.
BlockOf(doc) == SubSeq(Tail(doc), 1, FindClosing(Tail(doc)) - 1)

HasClosing(doc) == FindClosing(Tail(doc)) # 0

\* The block is no YAML mapping: it is empty, holds a line that is not
\* "key: value" or repeats a key.
MalformedBlock(block) ==
    LET lines == YamlLines(block)
    IN  \/ lines = << >>
        \/ \E i \in 1..Len(lines) : lines[i].t # "kv"
        \/ \E i, j \in 1..Len(lines) :
              i # j /\ lines[i].t = "kv" /\ lines[j].t = "kv"
              /\ lines[i].key = lines[j].key

\* C16: for a document that starts with --- and has a malformed frontmatter
\* block or no closing ---, parse_skill_md yields the entire document as
\* content, the requested identifier as name and every other field empty.
C16_MalformedFrontmatterWholeDocument ==
    ( /\ parsed.called
      /\ StartsWithDash3(parsed.doc)
      /\ (~HasClosing(parsed.doc) \/ MalformedBlock(BlockOf(parsed.doc))) )
    =>
        /\ parsed.out.content = parsed.doc
        /\ parsed.out.name = parsed.name
        /\ OtherFieldsEmpty(parsed.out)

\* The block is a mapping of skill fields without the key name.
WellFormedWithoutName(block) ==
    LET lines == YamlLines(block)
    IN  /\ lines # << >>
        /\ \A i \in 1..(Len(block) - 1) : IsSpace(block[i]) \/ IsSpace(block[i + 1])
        /\ \A i \in 1..Len(lines) :
              lines[i].t = "kv" /\ lines[i].key \in SkillKeys \ {"name"}
        /\ \A i, j \in 1..Len(lines) : lines[i].key = lines[j].key => i = j

\* C17: for a document whose frontmatter block is well-formed, sets fields
\* such as description or license and omits name, parse_skill_md keeps those
\* fields, takes the requested identifier as name and the text after the
\* closing delimiter as content.
C17_UnnamedFrontmatterKeepsFields ==
    ( /\ parsed.called
      /\ StartsWithDash3(parsed.doc)
      /\ HasClosing(parsed.doc)
      /\ WellFormedWithoutName(BlockOf(parsed.doc)) )
    =>
        LET lines == YamlLines(BlockOf(parsed.doc))
        IN  /\ parsed.out.name = parsed.name
            /\ parsed.out.description = KvValue(lines, "description")
            /\ parsed.out.license = KvValue(lines, "license")
            /\ parsed.out.compatibility = KvValue(lines, "compatibility")
            /\ parsed.out.allowed_tools = KvValue(lines, "allowed-tools")
            /\ parsed.out.dependencies = KvValue(lines, "dependencies")
            /\ parsed.out.metadata = KvValue(lines, "metadata")
            /\ Len(parsed.out.content) <= Len(parsed.doc)
            /\ parsed.out.content =
                  SubSeq(parsed.doc, Len(parsed.doc) - Len(parsed.out.content) + 1,
                         Len(parsed.doc))

(***************************************************************************)
(* Properties of the install command (checked under InstallSpec).          *)
(***************************************************************************)
\* The files directly inside a directory named dir_name.
FilesIn(dir_name) ==
    {q \in DOMAIN fs.files : Len(q) >= 2 /\ q[Len(q) - 1] = dir_name}

\* The directories directly inside a directory named dir_name.
DirsIn(dir_name) ==
    {q \in fs.dirs : Len(q) >= 2 /\ q[Len(q) - 1] = dir_name}

\* The command ran to its end for the built-in rust-architect on Claude,
\* on a file system that was empty.
BuiltinInstalledOnClaude ==
    /\ pc = "done"
    /\ target = "claude"
    /\ inv.start = [dirs |-> {}, files |-> << >>]
    /\ inv.name = <<"rust", "architect">>
    /\ StepTiers(resolved.out.steps) = <<"descriptor", "skill", "builtin">>

\* C12: from a target without artifacts, the install sequence for the
\* built-in rust-architect on Claude leaves exactly one identity document,
\* exactly the two skill directories tokio-patterns and error-handling with
\* exactly one entry document each, and one tool-config document whose
\* server mapping has the single key context7; nothing else is written.
C12_BuiltinInstallScenario ==
    BuiltinInstalledOnClaude =>
        /\ Cardinality(FilesIn(C("agents"))) = 1
        /\ \A q \in FilesIn(C("agents")) : q[Len(q)] = <<"rust", "architect", ".md">>
        /\ {q[Len(q)] : q \in DirsIn(C("skills"))} =
              {<<"tokio", "patterns">>, <<"error", "handling">>}
        /\ Cardinality(DirsIn(C("skills"))) = 2
        /\ \A d \in DirsIn(C("skills")) :
              /\ {q \in DOMAIN fs.files : IsUnder(q, d)} = {d \o << C("SKILL.md") >>}
              /\ {q \in fs.dirs : IsUnder(q, d)} = {d}
        /\ DocPath.some /\ IsFile(fs, DocPath.v)
        /\ fs.files[DocPath.v].kind = "json"
        /\ fs.files[DocPath.v].val.t = "object"
        /\ DOMAIN fs.files[DocPath.v].val.m = {"mcpServers"}
        /\ fs.files[DocPath.v].val.m["mcpServers"].t = "object"
        /\ DOMAIN fs.files[DocPath.v].val.m["mcpServers"].m = {<<"context7">>}
        /\ Cardinality(DOMAIN fs.files) = 4

\* The scenario on Linux, where the tool-config document lies outside the
\* directory of the agents and skills.
C12_Witness ==
    /\ BuiltinInstalledOnClaude
    /\ env.os = "linux"
    /\ inv.trace = <<"resolve", "deps", "install_identity", "install_skills",
                     "install_tools">>
    /\ Cardinality(DOMAIN fs.files) = 4

\* The place of a statement of execute in the order of the claim.
C19_Rank(at) ==
    CASE at = "resolve" -> 1
      [] at = "deps" -> 2
      [] at = "identity" -> 3
      [] at = "skills" -> 4
      [] at = "tools" -> 5
      [] at \in {"done", "failed", "panicked"} -> 6

C19_Step ==
    /\ pc' # pc => C19_Rank(pc') > C19_Rank(pc)
    /\ hist' # hist =>
          /\ resolved.called /\ resolved.out.result.ok
          /\ resolved' = resolved
          /\ inv.trace[1] = "resolve" /\ inv.trace[2] = "deps"
          /\ Len(hist') = Len(hist) + 1
          /\ \/ pc = "identity" /\ last'.op = "install_identity"
             \/ pc = "skills" /\ last'.op = "install_skills"
             \/ pc = "tools" /\ last'.op = "install_tools"
    /\ fs' # fs => hist' # hist
    /\ (pc = "resolve" /\ pc' # pc /\ ~resolved'.out.result.ok) =>
          /\ pc' = "failed"
          /\ fs' = inv.start
          /\ hist' = << >>
    /\ pc \in {"done", "failed", "panicked"} => (fs' = fs /\ hist' = hist)

\* C19: one install invocation runs resolve, the dependency check,
\* install_identity, install_skills and install_tools in this order, one at
\* a time; an adapter operation runs only after resolve succeeded, and when
\* resolve fails no adapter operation runs and nothing is written.
C19_SequentialOrder == [][C19_Step]_vars

\* An invocation that ran all five steps.
C19_Witness ==
    /\ pc = "done"
    /\ inv.trace = <<"resolve", "deps", "install_identity", "install_skills",
                     "install_tools">>
    /\ Len(hist) = 3
    /\ \A i \in 1..3 : hist[i].res = "ok"

\* The files the invocation has written so far.
WrittenSoFar ==
    {q \in DOMAIN fs.files :
        q \notin DOMAIN inv.start.files \/ inv.start.files[q] # fs.files[q]}

C20_Step ==
    /\ (hist' # hist /\ last'.res = "err") =>
          /\ pc' = "failed"
          /\ inv'.error # ""
          /\ \A q \in WrittenSoFar :
                q \in DOMAIN fs'.files /\ fs'.files[q] = fs.files[q]
    /\ pc = "failed" => (hist' = hist /\ fs' = fs)

\* C20: when an adapter operation of the install sequence returns an error,
\* the command ends with that error, no later adapter operation runs, and
\* what the completed operations wrote stays on disk unchanged.
C20_ErrorStopsSequence == [][C20_Step]_vars

\* install_skills failed after install_identity had written the identity
\* document, which is still there.
C20_Witness ==
    /\ pc = "failed"
    /\ Len(hist) = 2
    /\ hist[1].op = "install_identity" /\ hist[1].res = "ok"
    /\ hist[2].op = "install_skills" /\ hist[2].res = "err"
    /\ IdentityDocs(last.agent) # {}


\* The path of the entry document install_skills writes for the i-th skill
\* of the agent, on the file system f the operation starts on.
SkillEntryPath(f, agent, i) ==
    CASE target = "claude" ->
            ClaudeGetBaseDir(env, f).v
                \o << C("skills"), agent.skills[i].name, C("SKILL.md") >>
      [] target = "cursor" ->
            CursorGetRulesDir(env).v
                \o << agent.name \o agent.skills[i].name \o <<".mdc">> >>
      [] target = "codex" ->
            CodexGetSkillsDir(env).v \o << agent.skills[i].name, C("SKILL.md") >>

SkillsDirResolved ==
    CASE target = "claude" -> ClaudeGetBaseDir(env, fs).some
      [] target = "cursor" -> CursorGetRulesDir(env).some
      [] target = "codex" -> CodexGetSkillsDir(env).some

\* The file at path q is the same before and after the step.
Untouched(q) ==
    /\ q \in DOMAIN fs'.files <=> q \in DOMAIN fs.files
    /\ q \in DOMAIN fs.files => fs'.files[q] = fs.files[q]
    /\ q \in fs'.dirs <=> q \in fs.dirs

\* The entry document at path q was written by the step.
WrittenBy(q) ==
    /\ q \in DOMAIN fs'.files
    /\ fs'.files[q] # << >>

C21_Step ==
    ( /\ pc = "skills" /\ pc' = "failed"
      /\ SkillsDirResolved )
    => /\ last'.op = "install_skills" /\ last'.res = "err"
       /\ inv'.error = "install_skills"
       /\ fs.dirs \subseteq fs'.dirs
       /\ DOMAIN fs.files \subseteq DOMAIN fs'.files
       /\ \E k \in 1..Len(FetchedAgent.skills) :
             /\ \A i \in 1..(k - 1) : WrittenBy(SkillEntryPath(fs, FetchedAgent, i))
             /\ \A i \in k..Len(FetchedAgent.skills) :
                    Untouched(SkillEntryPath(fs, FetchedAgent, i))

\* C21: when install_skills fails at the k-th skill of the list, the entry
\* documents of the skills before it are written and stay, those of the k-th
\* and later skills are not written, the operation returns the error, and
\* nothing that was on disk is removed.
C21_PartialSkillsStay == [][C21_Step]_vars

\* install_skills failed at the second skill: the first entry document is on
\* disk, the second is not.
C21_Witness ==
    /\ pc = "failed" /\ last.op = "install_skills" /\ last.res = "err"
    /\ Len(last.agent.skills) = 2
    /\ \E q \in DOMAIN fs.files :
          /\ q[Len(q)] = C("SKILL.md") \/ q[Len(q)][Len(q[Len(q)])] = ".mdc"
          /\ fs.files[q] # << Line("other", <<"not a directory">>) >>

(***************************************************************************)
(* Properties of the adapter operations, continued (checked under Spec).   *)
(***************************************************************************)
\* The operation that ran last had to resolve a platform directory: the
\* operations on an empty list return before they ask for one, and
\* install_identity of Codex does nothing.
NeedsDirectory ==
    CASE last.op = "install_identity" -> target # "codex"
      [] last.op = "install_skills" -> last.agent.skills # << >>
      [] last.op = "install_tools" -> last.agent.mcp # << >>
      [] last.op = "uninstall" -> TRUE
      [] OTHER -> FALSE

\* The directory that operation asks for resolves.
DirectoryResolved ==
    CASE target = "claude" ->
            IF last.op = "install_tools" THEN ClaudeGetMcpConfigPath(env).some
            ELSE ClaudeGetBaseDir(env, fs).some
      [] target = "cursor" -> ~env.global \/ cursor_config_dir(env).some
      [] target = "codex" -> codex_config_dir(env).some

\* C22: an adapter operation that needs a platform directory which does not
\* resolve returns an error, and the file system holds nothing but what it
\* held at the start: no file or directory was written, created or deleted.
C22_UnresolvedDirectoryFails ==
    (NeedsDirectory /\ ~DirectoryResolved)
    => /\ last.res = "err"
       /\ fs \in SeedFs(target, env)

\* install_tools and uninstall were refused on a platform without
\* directories and the file system is still empty.
C22_Witness ==
    /\ ~DirectoryResolved
    /\ last.op = "uninstall" /\ last.res = "err"
    /\ \E i \in 1..Len(hist) : hist[i].op = "install_tools" /\ hist[i].res = "err"
    /\ fs = EmptyFs

(***************************************************************************)
(* Properties of install_tools operations running side by side (checked    *)
(* under RaceSpec).                                                        *)
(***************************************************************************)
BothStored == \A p \in DOMAIN procs : procs[p].at = "done"

\* The keys of the server mapping of a JSON value.
KeysOf(value) ==
    IF JsonGet(value, "mcpServers").some /\ JsonGet(value, "mcpServers").v.t = "object"
    THEN DOMAIN JsonGet(value, "mcpServers").v.m ELSE {}

\* C23: two install_tools operations on the same JSON document take no lock.
\* When both have written, the document is the one the last writer wrote,
\* computed from what that operation read; when both read before either
\* wrote, a key only the earlier writer added is not in the document.
C23_LastWriterWins ==
    (procs # NoProcs /\ BothStored)
    => LET winner == procs[hist[2].proc]
           loser == procs[hist[1].proc]
           doc == fs.files[ToolConfigPath(target, env).v]
       IN  /\ doc = ToStringPretty(MergeToolConfig(target, winner.loaded, winner.agent))
           /\ (winner.seen = 0 /\ loser.seen = 0)
              => \A k \in (ToolNames(loser.agent) \ ToolNames(winner.agent))
                          \ KeysOf(winner.loaded) :
                    k \notin KeysOf(doc.val)

\* Both operations read the document before either wrote it and both
\* returned Ok; the server "files" the first writer added is lost.
C23_Witness ==
    /\ procs # NoProcs /\ BothStored
    /\ procs[1].seen = 0 /\ procs[2].seen = 0
    /\ procs[hist[1].proc].agent = rust_agent
    /\ procs[hist[2].proc].agent = rust_architect_agent
    /\ <<"files">> \notin KeysOf(fs.files[ToolConfigPath(target, env).v].val)
    /\ <<"context7">> \in KeysOf(fs.files[ToolConfigPath(target, env).v].val)

(***************************************************************************)
(* Properties of the model label (checked under ModelSpec).                *)
(***************************************************************************)
Families == << "sonnet", "opus", "haiku" >>

\* The positions in Families of the family names occurring in the identifier.
FamiliesIn(model) == {i \in 1..Len(Families) : Families[i] \in Range(model)}

\* The model line of the identity document written for the agent.
ModelLineOf(agent) ==
    LET doc == fs.files[ClaudeGetAgentsDir(env, fs).v \o << agent.name \o <<".md">> >>]
    IN  doc[CHOOSE i \in 1..Len(doc) : doc[i].k = "model"].v

\* C24: the model label of the Claude identity document is the first name of
\* the list sonnet, opus, haiku that occurs in the model identifier, the
\* identifier itself when none occurs, and sonnet when the agent has no model.
C24_ModelLabel ==
    (last.op = "install_identity" /\ last.res = "ok")
    => LET model == last.agent.identity.model
           label == ModelLineOf(last.agent)
       IN  /\ ~model.some => label = <<"sonnet">>
           /\ (model.some /\ FamiliesIn(model.v) # {})
              => label = << Families[CHOOSE i \in FamiliesIn(model.v) :
                                        \A j \in FamiliesIn(model.v) : i <= j] >>
           /\ (model.some /\ FamiliesIn(model.v) = {}) => label = model.v

\* An identifier naming haiku, then opus, then sonnet is labelled sonnet.
C24_Witness ==
    /\ last.op = "install_identity" /\ last.res = "ok"
    /\ last.agent.identity.model = Some(<<"haiku", "opus", "sonnet">>)
    /\ ModelLineOf(last.agent) = <<"sonnet">>

(***************************************************************************)
(* Properties of the remote skill download (checked under InstallSpec).    *)
(***************************************************************************)
\* install_skills of Codex is the step being taken, for a one-skill agent
\* whose skill names a remote base URL and no local source, and the entry
\* document of the skill gets written.
RemoteSkillInstalled ==
    /\ pc = "skills" /\ pc' # "skills"
    /\ target = "codex"
    /\ Len(FetchedAgent.skills) = 1
    /\ FetchedAgent.skills[1].remote_base_url.some
    /\ ~FetchedAgent.skills[1].source_dir.some
    /\ CodexGetSkillsDir(env).some
    /\ IsFile(fs', SkillEntryPath(fs, FetchedAgent, 1))

\* The directory of the skill of a one-skill agent on Codex.
RemoteSkillFolder == CodexGetSkillsDir(env).v \o << FetchedAgent.skills[1].name >>

\* The candidate files of one subdirectory.
CandidatesOf(subdir) == {c \in Range(SubdirFiles) : c[1] = subdir}

\* The same agent with a local source directory for its skill.
WithSourceDir(agent) ==
    [agent EXCEPT !.skills[1].source_dir = Some(<< C("local"), C("skill") >>)]

C25_Step ==
    RemoteSkillInstalled
    => /\ last'.res = "ok"
       /\ \E served \in ServedSets :
             /\ \A c \in Range(SubdirFiles) :
                   LET q == RemoteSkillFolder \o << C(c[1]), C(c[2]) >>
                   IN  IF c \in served
                       THEN /\ q \in DOMAIN fs'.files
                            /\ fs'.files[q] =
                                  RemoteBytes(FetchedAgent.skills[1].remote_base_url.v, c)
                       ELSE q \notin DOMAIN fs'.files
             /\ \A subdir \in {c[1] : c \in Range(SubdirFiles)} :
                   (RemoteSkillFolder \o << C(subdir) >> \in fs'.dirs)
                   <=> (CandidatesOf(subdir) \cap served # {})
       /\ \A orders \in SkillOrders(FetchedAgent.skills), s1 \in ServedSets,
             s2 \in ServedSets :
             LET local == CodexInstallSkills(env, fs, WithSourceDir(FetchedAgent),
                                             orders, s1)
             IN  /\ local = CodexInstallSkills(env, fs, WithSourceDir(FetchedAgent),
                                               orders, s2)
                 /\ \A q \in DOMAIN local.fs.files :
                       \A c \in Range(SubdirFiles) :
                          local.fs.files[q] #
                            RemoteBytes(FetchedAgent.skills[1].remote_base_url.v, c)

\* C25: for a skill with a remote base URL and no local source, install_skills
\* of Codex asks for every candidate file, writes the ones the registry
\* serves, skips the others, creates a subdirectory only when one of its
\* candidates was fetched, and returns Ok however many are missing; with a
\* local source directory nothing is fetched.
C25_RemoteCandidatesBestEffort == [][C25_Step]_vars

\* The registry served scripts/main.py and assets/template.json only: both
\* are on disk, references was not created, install_skills returned Ok.
C25_Witness ==
    /\ target = "codex" /\ last.op = "install_skills" /\ last.res = "ok"
    /\ last.agent.skills[1].remote_base_url.some
    /\ LET folder == CodexGetSkillsDir(env).v \o << last.agent.skills[1].name >>
       IN  /\ IsFile(fs, folder \o << C("scripts"), C("main.py") >>)
           /\ IsFile(fs, folder \o << C("assets"), C("template.json") >>)
           /\ ~IsFile(fs, folder \o << C("scripts"), C("run_ruff.py") >>)
           /\ ~IsDir(fs, folder \o << C("references") >>)

(***************************************************************************)
(* Properties of install_tools on an unreadable document (checked under    *)
(* InstallSpec).                                                           *)
(***************************************************************************)
C26_Step ==
    ( /\ Runs("install_tools")
      /\ target \in JsonTargets
      /\ DocPath.some /\ IsFile(fs, DocPath.v)
      /\ fs.files[DocPath.v].kind = "garbage" )
    => fs'.files[DocPath.v] = fs.files[DocPath.v]

\* C26: install_tools of a JSON target does not replace an existing
\* tool-config document that does not parse as JSON by a document holding
\* only the newly installed tools: the file keeps its content.
C26_UnparseableDocumentKept == [][C26_Step]_vars

(***************************************************************************)
(* Properties of uninstall with two agents (checked under Spec).           *)
(***************************************************************************)
\* The behaviour is install_identity and install_skills of one agent, both
\* Ok, followed by uninstall of another name.
OtherUninstalled ==
    /\ Len(hist) = 3
    /\ hist[1].op = "install_identity" /\ hist[1].res = "ok"
    /\ hist[2].op = "install_skills" /\ hist[2].res = "ok"
    /\ hist[3].op = "uninstall"
    /\ hist[2].name = hist[1].name
    /\ hist[3].name # hist[1].name

\* C27: uninstall(A) leaves the identity document and the skill entry
\* documents written by installing another agent B in place, also when A is
\* the first word of B's name or the name of one of B's skills.
C27_UninstallLeavesOtherAgents ==
    OtherUninstalled
    => LET B == AgentNamed(hist[1].name)
       IN  /\ target # "codex" => IdentityDocs(B) # {}
           /\ \A i \in 1..Len(B.skills) : IsFile(fs, SkillEntryPath(fs, B, i))

(***************************************************************************)
(* Properties of install_tools on a list with a repeated name (checked     *)
(* under ToolsSpec).                                                       *)
(***************************************************************************)
\* The names two or more entries of the agent's tool list bear.
RepeatedNames(agent) ==
    {n \in ToolNames(agent) :
        \E i, j \in 1..Len(agent.mcp) :
            i # j /\ agent.mcp[i].name = n /\ agent.mcp[j].name = n}

\* The rendering of a tool in the JSON document of the target.
RenderedTool(tool) ==
    IF target = "claude" THEN ClaudeToolConfig(tool).config
    ELSE CursorToolConfig(tool).config

\* The positions of the header of the name in a sectioned document.
HeadersOf(content, name) ==
    {i \in 1..Len(content) : content[i] = Line("header", name)}

C28_Step ==
    (Runs("install_tools") /\ last'.res = "ok")
    => \A n \in RepeatedNames(last'.agent) :
         LET doc == fs'.files[DocPath.v]
         IN  IF target \in JsonTargets
             THEN /\ n \in ServerKeys(doc)
                  /\ doc.val.m["mcpServers"].m[n]
                        = RenderedTool(LastToolNamed(last'.agent, n))
             ELSE (~IsFile(fs, DocPath.v) \/ ~HeaderOccurs(fs.files[DocPath.v], n))
                  => /\ Cardinality(HeadersOf(doc, n)) = 1
                     /\ \A i \in HeadersOf(doc, n) :
                           doc[i + 1] = Line("command",
                                             << FirstToolNamed(last'.agent, n).command >>)

\* C28: when two entries of the tool list bear the same name, install_tools
\* leaves one entry for the name: on the JSON targets the rendering of the
\* last such entry, on Codex the section of the first such entry.
C28_RepeatedToolName == [][C28_Step]_vars

\* The list held context7 twice with different commands and the document
\* has one entry for it.
C28_Witness ==
    /\ last.op = "install_tools" /\ last.res = "ok"
    /\ last.agent.mcp = << rust_agent.mcp[1], context7 >>
    /\ IF target \in JsonTargets
       THEN fs.files[DocPath.v].val.m["mcpServers"].m[<<"context7">>]
                = RenderedTool(context7)
       ELSE /\ Cardinality(HeadersOf(fs.files[DocPath.v], <<"context7">>)) = 1
            /\ \E i \in HeadersOf(fs.files[DocPath.v], <<"context7">>) :
                   fs.files[DocPath.v][i + 1] = Line("command", <<"uvx">>)

(***************************************************************************)
(* Properties of the operations on an empty list (checked under Spec).     *)
(***************************************************************************)
\* An install operation for an agent without tools is the step being taken:
\* one step of the install sequence of such an agent.
InstallsToolless ==
    /\ hist' # hist
    /\ last'.op \in {"install_identity", "install_skills", "install_tools"}
    /\ last'.agent.mcp = << >>
    /\ DocPath.some

\* install_tools on an empty tool list and install_skills on an empty skill
\* list change nothing on disk and return Ok.
EmptyListStep ==
    /\ (Runs("install_tools") /\ last'.agent.mcp = << >>)
       => (fs' = fs /\ last'.res = "ok")
    /\ (Runs("install_skills") /\ last'.agent.skills = << >>)
       => (fs' = fs /\ last'.res = "ok")

C29_OriginalStep ==
    /\ EmptyListStep
    /\ InstallsToolless
       => /\ Untouched(DocPath.v)
          /\ Parent(DocPath.v) \in fs'.dirs <=> Parent(DocPath.v) \in fs.dirs

\* C29 as stated: for an agent with an empty tool list, install_tools and
\* every step of the install sequence leave the tool-config document and its
\* parent directory as they were; install_skills on an empty skill list
\* creates nothing.
C29_EmptyListsTouchNothing == [][C29_OriginalStep]_vars

C29_AmendedStep ==
    /\ EmptyListStep
    /\ InstallsToolless => Untouched(DocPath.v)

\* C29 amended: for an agent with an empty tool list, install_tools changes
\* nothing on disk and every step of the install sequence leaves the
\* tool-config document as it was (the parent directory of the document may
\* be created by install_identity or install_skills); install_skills on an
\* empty skill list creates nothing.
C29_EmptyListsLeaveDocument == [][C29_AmendedStep]_vars

\* The install sequence of an agent without tools ran on an empty disk: the
\* tool-config document does not exist, its parent directory does.
C29_Witness ==
    /\ Len(hist) = 3
    /\ hist[1].op = "install_identity" /\ hist[1].res = "ok"
    /\ hist[2].op = "install_skills" /\ hist[2].res = "ok"
    /\ hist[3].op = "install_tools" /\ hist[3].res = "ok"
    /\ hist[1].name = last.name /\ hist[2].name = last.name
    /\ last.agent.mcp = << >>
    /\ DocPath.some
    /\ ~Exists(fs, DocPath.v)
    /\ Parent(DocPath.v) \in fs.dirs

(***************************************************************************)
(* Properties of the resolver, continued (checked under RegistrySpec).     *)
(***************************************************************************)
\* C30: every agent fetch_agent returns bears the requested name, whichever
\* tier produced it.
C30_ReturnedNameIsRequested ==
    (resolved.called /\ resolved.out.result.ok)
    => resolved.out.result.v.name = resolved.name
====
